---- MODULE Spec2Model ----
(***************************************************************************)
(* The RDB snapshot decoder of redis-replication: DefaultRDBParser::parse  *)
(* and DefaultRDBParser::read_object (src/src/rdb.rs), as a state machine. *)
(*                                                                         *)
(* One step of the machine is one of: the start of parse (BOR and the      *)
(* header), one evaluation of the outer `while running` condition, one arm *)
(* of the opcode `match` up to and including the first batch of a          *)
(* container, or one further iteration of a container's `while has_more`   *)
(* loop.  Every step delivers at most one event to the handler.            *)
(*                                                                         *)
(* The input stream is read lazily: every value an arm reads is drawn when *)
(* the arm reads it.  The handler is a monitor that keeps what the claims  *)
(* need of the delivered events: the events of the current outer-loop      *)
(* iteration in full (cur) and a summary of all earlier ones (hist).       *)
(*                                                                         *)
(* The RESP framer of the driver, StandaloneEventListener::response with   *)
(* read_bytes (src/src/lib.rs), is a second machine over the variable resp *)
(* (specification RespSpec); one step of it is one read from the socket.   *)
(* read_length with read_integer is a third machine over rl (LenSpec), and *)
(* the listener with open, close and the handshake a fourth over drv       *)
(* (OpenSpec).  Each machine leaves the variables of the others alone.     *)
(***************************************************************************)
EXTENDS Integers, Sequences, FiniteSets, TLC

(***************************************************************************)
(* Program constants (src/src/rdb.rs).                                     *)
(***************************************************************************)
RDB_TYPE_STRING == 0
RDB_TYPE_LIST == 1
RDB_TYPE_SET == 2
RDB_TYPE_ZSET == 3
RDB_TYPE_HASH == 4
RDB_TYPE_ZSET_2 == 5
RDB_TYPE_MODULE == 6
RDB_TYPE_MODULE_2 == 7
RDB_TYPE_HASH_ZIPMAP == 9
RDB_TYPE_LIST_ZIPLIST == 10
RDB_TYPE_SET_INTSET == 11
RDB_TYPE_ZSET_ZIPLIST == 12
RDB_TYPE_HASH_ZIPLIST == 13
RDB_TYPE_LIST_QUICKLIST == 14
RDB_TYPE_STREAM_LISTPACKS == 15

RDB_OPCODE_MODULE_AUX == 247
RDB_OPCODE_IDLE == 248
RDB_OPCODE_FREQ == 249
RDB_OPCODE_AUX == 250
RDB_OPCODE_RESIZEDB == 251
RDB_OPCODE_EXPIRETIME_MS == 252
RDB_OPCODE_EXPIRETIME == 253
RDB_OPCODE_SELECTDB == 254
RDB_OPCODE_EOF == 255

BATCH_SIZE == 64

(***************************************************************************)
(* Program constants (src/src/lib.rs): the bytes of the RESP wire format.  *)
(***************************************************************************)
CR == 13
LF == 10
STAR == 42
DOLLAR == 36
PLUS == 43
MINUS == 45
COLON == 58

(***************************************************************************)
(* Bounds of the inputs explored.                                          *)
(***************************************************************************)
\* Containers hold up to MaxBatches full batches and a remainder.
MaxBatches == 2
\* SELECTDB announces db numbers 0..MaxDb.
MaxDb == 1

Keys == {"k1", "k2"}
Values == {"v1"}
DbNums == 0..MaxDb
\* Expire times, LFU frequencies and LRU idle times found in the input.
ExpireTimes == {1528}
FreqVals == {4}
IdleVals == {1914}
\* The header's version: both sides of the `rdb_version >= 5` test.
RdbVersions == {4, 5}
\* The bytes found at opcode and value-type positions: every type code,
\* the unassigned codes 8 and 16, and every special opcode.
OpBytes == (0..16) \cup (247..255)
\* The numbers of elements a container's iterator yields: around every
\* multiple of the batch size.
Counts == {b * BATCH_SIZE + r : b \in 0..MaxBatches, r \in {0, 1, BATCH_SIZE - 1}}

VARIABLES
    pc,          \* where parse is: start, cond, body, batch, ok, err, panic
    running,     \* the shared AtomicBool
    rdb_version, \* parsed from the header
    db,          \* `let mut db`
    meta,        \* `let mut meta` of the current iteration
    rec,         \* read_object's locals while a container is being read
    op,          \* what the current iteration has read from the input
    cur,         \* the events delivered in the current iteration
    hist,        \* the handler's summary of every event delivered so far
    resp,        \* the RESP framer: where response is, and what it has read
    rl,          \* read_length: where it is, what it has read and returned
    drv,         \* the listener: its fields, the socket, and where open is
    rs,          \* read_string: where it is, what it has read and returned
    zl,          \* read_zip_list_entry: where it is, what it has read and returned
    ids          \* two stream IDs and what their comparisons gave

vars == <<pc, running, rdb_version, db, meta, rec, op, cur, hist, resp, rl, drv,
          rs, zl, ids>>

\* The variables of the decoder, of the framer, of read_length and of the
\* listener.
rdb_vars == <<pc, running, rdb_version, db, meta, rec, op, cur, hist>>
resp_vars == <<resp>>
len_vars == <<rl>>
open_vars == <<drv>>
\* The variables of read_string, read_zip_list_entry and the ID comparisons.
fn_vars == <<rs, zl, ids>>

(***************************************************************************)
(* Data.                                                                   *)
(***************************************************************************)
\* Option::None; Some((kind, value)) is the pair <<kind, value>>.
None == <<>>

ContainerTypes ==
    {RDB_TYPE_LIST, RDB_TYPE_SET, RDB_TYPE_ZSET, RDB_TYPE_ZSET_2, RDB_TYPE_HASH,
     RDB_TYPE_HASH_ZIPMAP, RDB_TYPE_LIST_ZIPLIST, RDB_TYPE_HASH_ZIPLIST,
     RDB_TYPE_ZSET_ZIPLIST, RDB_TYPE_SET_INTSET, RDB_TYPE_LIST_QUICKLIST}

\* The arms that build one element from two calls of iter.next().
PairedTypes == {RDB_TYPE_HASH, RDB_TYPE_HASH_ZIPLIST, RDB_TYPE_ZSET_ZIPLIST}

\* The Object variant each arm of read_object delivers.
Variant(value_type) ==
    CASE value_type = RDB_TYPE_STRING -> "String"
      [] value_type \in {RDB_TYPE_LIST, RDB_TYPE_LIST_ZIPLIST, RDB_TYPE_LIST_QUICKLIST} -> "List"
      [] value_type \in {RDB_TYPE_SET, RDB_TYPE_SET_INTSET} -> "Set"
      [] value_type \in {RDB_TYPE_ZSET, RDB_TYPE_ZSET_2, RDB_TYPE_ZSET_ZIPLIST} -> "SortedSet"
      [] value_type \in {RDB_TYPE_HASH, RDB_TYPE_HASH_ZIPMAP, RDB_TYPE_HASH_ZIPLIST} -> "Hash"

DataKinds == {"String", "List", "Set", "SortedSet", "Hash", "Module", "Stream"}

BOR == [kind |-> "BOR"]
EOR == [kind |-> "EOR"]

\* Variant of SelectEvent: the event carries a db number that is off by one.
\* C4_SelectPerOpcode tells it from SelectEvent.
SelectEventOffByOne(_db) == [kind |-> "SELECT", db |-> _db + 1]

\* Event::AOF(Command::SELECT(&SELECT { db: _db as i32 })); the db numbers of
\* DbNums are far inside i32, where the cast changes nothing.
SelectEvent(_db) == [kind |-> "SELECT", db |-> _db]

\* Event::RDB(Object::X(X { key: &key, <payload>: &val, meta }))
ObjectEvent(value_type, key, val, m) ==
    [kind |-> Variant(value_type), key |-> key, val |-> val, meta |-> m]

(***************************************************************************)
(* The handler: what it keeps of the events it is given.                   *)
(***************************************************************************)
\* first: the kind of the first event; bor/eor: how many BOR and EOR events
\* arrived; keyDb: per key, the meta.db of the first object event that carried
\* the key, as a set of one (empty before there is one); selected: the db of
\* the last SELECT event, 0 before there is one.
Handle(h, e) ==
    [first  |-> IF h.first = "none" THEN e.kind ELSE h.first,
     bor    |-> h.bor + (IF e.kind = "BOR" THEN 1 ELSE 0),
     eor    |-> h.eor + (IF e.kind = "EOR" THEN 1 ELSE 0),
     selected |-> IF e.kind = "SELECT" THEN e.db ELSE h.selected,
     keyDb  |-> IF e.kind \in DataKinds /\ h.keyDb[e.key] = {}
                THEN [h.keyDb EXCEPT ![e.key] = {e.meta.db}]
                ELSE h.keyDb]

\* event_handler.handle(e)
Deliver(e) ==
    /\ cur' = Append(cur, e)
    /\ hist' = Handle(hist, e)

(***************************************************************************)
(* Meta.                                                                   *)
(***************************************************************************)
\* Variant of NewMeta: the meta of the iteration before is kept and only its
\* db refreshed.  C9_MetaPerRecord tells it from NewMeta.
NewMetaKept(prev, _db) == [prev EXCEPT !.db = _db]

\* Variant of NewMeta: the meta of an iteration starts in the default db.
\* C35_DbOfLastSelect tells it from NewMeta.
NewMetaDefaultDb(prev, _db) == [db |-> 0, expire |-> None, evict |-> None]

\* `let mut meta = Meta { db, expire: None, evict: None }` at the top of the
\* loop body; prev is the meta of the iteration before, which the code drops.
NewMeta(prev, _db) == [db |-> _db, expire |-> None, evict |-> None]

\* Variant of ExpireOf: the unit is Second whatever the opcode.
\* C10_PrefixChain tells it from ExpireOf.
ExpireOfSecond(data_type, expired_time) == <<"Second", expired_time>>

\* meta.expire = Some((ExpireType::Millisecond | Second, expired_time as i64))
ExpireOf(data_type, expired_time) ==
    IF data_type = RDB_OPCODE_EXPIRETIME_MS
    THEN <<"Millisecond", expired_time>>
    ELSE <<"Second", expired_time>>

\* meta.evict = Some((EvictType::LFU, val as i64)) after FREQ, LRU after IDLE
EvictOf(opcode, val) ==
    IF opcode = RDB_OPCODE_FREQ THEN <<"LFU", val>> ELSE <<"LRU", val>>

(***************************************************************************)
(* What an iteration has read (op) and read_object's locals (rec).         *)
(***************************************************************************)
\* code: the arm taken; expire/evict: the prefix opcodes read, as
\* <<opcode, value>>; seldb: the db a SELECTDB read; value_type, key: the
\* record; n: how many elements its iterator yields before it stops; extra:
\* the bytes the EOF arm consumed after the opcode; cleared: <<k>> once the
\* flag was cleared between two batches of the record, after k of them.
NoOp == [code |-> "none", expire |-> None, evict |-> None, seldb |-> 0,
         value_type |-> -1, key |-> "", n |-> 0, extra |-> 0, cleared |-> None]

\* pos: elements the iterator has yielded; left: elements it still yields;
\* tail: why it stopped, once it has: "end" (its count is used up), "fail" (a
\* read failed, or the packed payload is cut short, at an element boundary),
\* "dangling" (the first half of a pair was read and the second was not).
NoRec == [value_type |-> -1, key |-> "", pos |-> 0, left |-> 0, tail |-> "",
          has_more |-> FALSE]

\* The framer before response is called; resp keeps this value throughout
\* the decoder's specification.
NoResp == [pc |-> "idle"]
\* read_length and open are not called.
NoLen == [pc |-> "idle"]
NoDrv == [pc |-> "idle"]
\* read_string, read_zip_list_entry and the ID comparisons are not called.
NoFn == [pc |-> "idle"]

Tails(value_type) ==
    IF value_type \in PairedTypes THEN {"end", "fail", "dangling"} ELSE {"end", "fail"}

\* The elements k successful rounds of iter.next() give: element i of a record
\* is named by its place i in the input (in a paired arm it is the pair built
\* from the iterator's entries 2i-1 and 2i).
IterTake(r, k) == [j \in 1..k |-> r.pos + j]

\* Variant of FillBatch: after a full batch one more element is taken from the
\* iterator, to see whether there is more, and dropped.  C8_InputOrder tells it
\* from FillBatch.
FillBatchPeek(r, tail) ==
    LET k == IF r.left < BATCH_SIZE THEN r.left ELSE BATCH_SIZE
        d == IF r.left > BATCH_SIZE THEN 1 ELSE 0
    IN  [val      |-> IterTake(r, k),
         pos      |-> r.pos + k + d,
         left     |-> r.left - k - d,
         has_more |-> ~(r.left < BATCH_SIZE),
         abort    |-> (r.left < BATCH_SIZE /\ tail = "dangling")]

\* `for _ in 0..BATCH_SIZE { if let Ok(next_val) = iter.next() { val.push(..) }
\*  else { has_more = false; break } }`; abort: the `expect` of a paired arm.
\* tail is why the iterator stops, for a round in which it does.
FillBatch(r, tail) ==
    LET k == IF r.left < BATCH_SIZE THEN r.left ELSE BATCH_SIZE
    IN  [val      |-> IterTake(r, k),
         pos      |-> r.pos + k,
         left     |-> r.left - k,
         has_more |-> ~(r.left < BATCH_SIZE),
         abort    |-> (r.left < BATCH_SIZE /\ tail = "dangling")]

\* Variant of EmitsBatch: without the is_empty test.  C6_Batches tells it from
\* EmitsBatch.
EmitsBatchAlways(val) == TRUE

\* `if !val.is_empty() { event_handler.handle(..) }`
EmitsBatch(val) == val # <<>>

\* Variant of WhileIteration: a record whose iterator yields nothing is a
\* failure of the decoding.  C36_EmptyContainerSilent tells it from
\* WhileIteration.
WhileIterationEmptyFails(r, m) ==
    \E tail \in (IF r.left < BATCH_SIZE THEN Tails(r.value_type) ELSE {""}) :
      LET f == FillBatch(r, tail)
      IN  IF f.abort
          THEN /\ pc' = "panic"
               /\ rec' = [r EXCEPT !.pos = f.pos, !.left = f.left, !.tail = tail,
                                   !.has_more = FALSE]
               /\ UNCHANGED <<cur, hist>>
          ELSE /\ IF EmitsBatch(f.val)
                  THEN Deliver(ObjectEvent(r.value_type, r.key, f.val, m))
                  ELSE UNCHANGED <<cur, hist>>
               /\ rec' = [r EXCEPT !.pos = f.pos, !.left = f.left, !.tail = tail,
                                   !.has_more = f.has_more]
               /\ pc' = IF f.has_more THEN "batch"
                        ELSE IF f.pos = 0 THEN "err" ELSE "cond"

\* One iteration of `while has_more` for the record r, with meta m.
WhileIteration(r, m) ==
    \E tail \in (IF r.left < BATCH_SIZE THEN Tails(r.value_type) ELSE {""}) :
      LET f == FillBatch(r, tail)
      IN  IF f.abort
          THEN /\ pc' = "panic"
               /\ rec' = [r EXCEPT !.pos = f.pos, !.left = f.left, !.tail = tail,
                                   !.has_more = FALSE]
               /\ UNCHANGED <<cur, hist>>
          ELSE /\ IF EmitsBatch(f.val)
                  THEN Deliver(ObjectEvent(r.value_type, r.key, f.val, m))
                  ELSE UNCHANGED <<cur, hist>>
               /\ rec' = [r EXCEPT !.pos = f.pos, !.left = f.left, !.tail = tail,
                                   !.has_more = f.has_more]
               /\ pc' = IF f.has_more THEN "batch" ELSE "cond"

(***************************************************************************)
(* read_object: the value of one record, up to its first batch.            *)
(***************************************************************************)
\* Variant of read_object: a value-type byte without an arm is skipped and the
\* loop goes on.  C16_UnknownTypeFatal tells it from read_object.
read_objectSkips(value_type, m, rd) ==
    /\ meta' = m
    /\ UNCHANGED <<running, rdb_version, db>>
    /\ UNCHANGED <<resp_vars, len_vars, open_vars, fn_vars>>
    /\ IF value_type = RDB_TYPE_STRING
       THEN \E key \in Keys, value \in Values :
              /\ Deliver(ObjectEvent(value_type, key, value, m))
              /\ op' = [rd EXCEPT !.code = "object", !.value_type = value_type,
                                  !.key = key, !.n = 1]
              /\ rec' = NoRec
              /\ pc' = "cond"
       ELSE IF value_type \in ContainerTypes
       THEN \E key \in Keys, n \in Counts :
              /\ op' = [rd EXCEPT !.code = "object", !.value_type = value_type,
                                  !.key = key, !.n = n]
              /\ WhileIteration([value_type |-> value_type, key |-> key, pos |-> 0,
                                 left |-> n, tail |-> "", has_more |-> TRUE], m)
       ELSE /\ op' = [rd EXCEPT !.code = "object", !.value_type = value_type]
            /\ rec' = NoRec
            /\ pc' = "cond"
            /\ UNCHANGED <<cur, hist>>

read_object(value_type, m, rd) ==
    /\ meta' = m
    /\ UNCHANGED <<running, rdb_version, db>>
    /\ UNCHANGED <<resp_vars, len_vars, open_vars, fn_vars>>
    /\ IF value_type = RDB_TYPE_STRING
       THEN \E key \in Keys, value \in Values :
              /\ Deliver(ObjectEvent(value_type, key, value, m))
              /\ op' = [rd EXCEPT !.code = "object", !.value_type = value_type,
                                  !.key = key, !.n = 1]
              /\ rec' = NoRec
              /\ pc' = "cond"
       ELSE IF value_type \in ContainerTypes
       THEN \E key \in Keys, n \in Counts :
              /\ op' = [rd EXCEPT !.code = "object", !.value_type = value_type,
                                  !.key = key, !.n = n]
              /\ WhileIteration([value_type |-> value_type, key |-> key, pos |-> 0,
                                 left |-> n, tail |-> "", has_more |-> TRUE], m)
       ELSE \* MODULE, MODULE_2, STREAM_LISTPACKS: unimplemented!(); others: panic!
            /\ op' = [rd EXCEPT !.code = "object", !.value_type = value_type]
            /\ rec' = NoRec
            /\ pc' = "panic"
            /\ UNCHANGED <<cur, hist>>

(***************************************************************************)
(* parse.                                                                  *)
(***************************************************************************)
Init ==
    /\ pc = "start"
    /\ running \in BOOLEAN
    /\ rdb_version = 0
    /\ db = 0
    /\ meta = [db |-> 0, expire |-> None, evict |-> None]
    /\ rec = NoRec
    /\ op = NoOp
    /\ cur = <<>>
    /\ hist = [first |-> "none", bor |-> 0, eor |-> 0, selected |-> 0,
               keyDb |-> [k \in Keys |-> {}]]
    /\ resp = NoResp
    /\ rl = NoLen
    /\ drv = NoDrv
    /\ rs = NoFn /\ zl = NoFn /\ ids = NoFn

\* Variant of FirstEvent: the wrong marker opens the bracket.
\* C2_DataInsideBracket tells it from FirstEvent.
FirstEventEOR == EOR

\* The event parse delivers before it reads anything.
FirstEvent == BOR

\* Variant of FinalEvent: the wrong marker closes the bracket.  C1_OkBracket
\* tells it from FinalEvent.
FinalEventBOR == BOR

\* The event parse delivers when the loop is left.
FinalEvent == EOR

\* handle(BOR); the 9 header bytes; rdb_version; `let mut db = 0`.
Begin ==
    /\ pc = "start"
    /\ Deliver(FirstEvent)
    /\ \/ /\ pc' = "err"          \* a read_exact of the header fails
          /\ UNCHANGED rdb_version
       \/ /\ pc' = "panic"        \* the version field is not a number: unwrap
          /\ UNCHANGED rdb_version
       \/ /\ pc' = "cond"
          /\ rdb_version' \in RdbVersions
    /\ db' = 0
    /\ UNCHANGED <<running, meta, rec, op>>
    /\ UNCHANGED <<resp_vars, len_vars, open_vars, fn_vars>>

\* Another thread, or the handler, stores false in the shared flag.
ClearRunning ==
    /\ pc \in {"start", "cond", "body", "batch"}
    /\ running
    /\ running' = FALSE
    /\ op' = IF pc = "batch" THEN [op EXCEPT !.cleared = <<Len(cur)>>] ELSE op
    /\ UNCHANGED <<pc, rdb_version, db, meta, rec, cur, hist>>
    /\ UNCHANGED <<resp_vars, len_vars, open_vars, fn_vars>>

\* Variant of LoopCond: when the flag is false the loop is left without the
\* closing event.  C12_CleanShutdown tells it from LoopCond.
LoopCondSilent ==
    /\ pc = "cond"
    /\ IF running
       THEN /\ pc' = "body"
            /\ meta' = NewMeta(meta, db)
            /\ rec' = NoRec
            /\ op' = NoOp
            /\ cur' = <<>>
            /\ UNCHANGED hist
       ELSE /\ pc' = "ok"
            /\ cur' = <<>>
            /\ rec' = NoRec
            /\ op' = NoOp
            /\ UNCHANGED <<meta, hist>>
    /\ UNCHANGED <<running, rdb_version, db>>
    /\ UNCHANGED <<resp_vars, len_vars, open_vars, fn_vars>>

\* `while self.running.load(..)`: into the body with a new meta, or out of the
\* loop to handle(EOR) and Ok(()).
LoopCond ==
    /\ pc = "cond"
    /\ IF running
       THEN /\ pc' = "body"
            /\ meta' = NewMeta(meta, db)
            /\ rec' = NoRec
            /\ op' = NoOp
            /\ cur' = <<>>
            /\ UNCHANGED hist
       ELSE /\ pc' = "ok"
            /\ hist' = Handle(hist, FinalEvent)
            /\ cur' = <<FinalEvent>>
            /\ rec' = NoRec
            /\ op' = NoOp
            /\ UNCHANGED meta
    /\ UNCHANGED <<running, rdb_version, db>>
    /\ UNCHANGED <<resp_vars, len_vars, open_vars, fn_vars>>

\* A read of this iteration fails before the iteration delivers anything: the
\* opcode byte, a prefix value, a length, a key, a string, the checksum.
ReadFail ==
    /\ pc = "body"
    /\ pc' = "err"
    /\ op' = [NoOp EXCEPT !.code = "fail"]
    /\ UNCHANGED <<running, rdb_version, db, meta, rec, cur, hist>>
    /\ UNCHANGED <<resp_vars, len_vars, open_vars, fn_vars>>

Aux ==
    /\ pc = "body"
    /\ op' = [NoOp EXCEPT !.code = "AUX"]
    /\ pc' = "cond"
    /\ UNCHANGED <<running, rdb_version, db, meta, rec, cur, hist>>
    /\ UNCHANGED <<resp_vars, len_vars, open_vars, fn_vars>>

SelectDb ==
    /\ pc = "body"
    /\ \E _db \in DbNums :
         /\ meta' = [meta EXCEPT !.db = _db]
         /\ db' = _db
         /\ Deliver(SelectEvent(_db))
         /\ op' = [NoOp EXCEPT !.code = "SELECTDB", !.seldb = _db]
    /\ pc' = "cond"
    /\ UNCHANGED <<running, rdb_version, rec>>
    /\ UNCHANGED <<resp_vars, len_vars, open_vars, fn_vars>>

\* Variant of ResizeDb: the arm delivers a SELECT event as the arm of SELECTDB
\* does.  C3_DataOrSelectInside tells it from ResizeDb.
ResizeDbSelect ==
    /\ pc = "body"
    /\ op' = [NoOp EXCEPT !.code = "RESIZEDB"]
    /\ Deliver(SelectEvent(db))
    /\ pc' = "cond"
    /\ UNCHANGED <<running, rdb_version, db, meta, rec>>
    /\ UNCHANGED <<resp_vars, len_vars, open_vars, fn_vars>>

\* RESIZEDB: two lengths are read and dropped.
ResizeDb ==
    /\ pc = "body"
    /\ op' = [NoOp EXCEPT !.code = "RESIZEDB"]
    /\ pc' = "cond"
    /\ UNCHANGED <<running, rdb_version, db, meta, rec, cur, hist>>
    /\ UNCHANGED <<resp_vars, len_vars, open_vars, fn_vars>>

\* The arm of EXPIRETIME and EXPIRETIME_MS, with its inner match.
Expire ==
    /\ pc = "body"
    /\ \E data_type \in {RDB_OPCODE_EXPIRETIME, RDB_OPCODE_EXPIRETIME_MS},
          expired_time \in ExpireTimes, value_type \in OpBytes :
         LET m1 == [meta EXCEPT !.expire = ExpireOf(data_type, expired_time)]
             rd1 == [NoOp EXCEPT !.expire = <<data_type, expired_time>>]
         IN  IF value_type = RDB_OPCODE_FREQ
             THEN \E val \in FreqVals, value_type2 \in OpBytes :
                    read_object(value_type2,
                                [m1 EXCEPT !.evict = EvictOf(value_type, val)],
                                [rd1 EXCEPT !.evict = <<value_type, val>>])
             ELSE IF value_type = RDB_OPCODE_IDLE
             THEN \E val \in IdleVals, value_type2 \in OpBytes :
                    read_object(value_type2,
                                [m1 EXCEPT !.evict = EvictOf(value_type, val)],
                                [rd1 EXCEPT !.evict = <<value_type, val>>])
             ELSE read_object(value_type, m1, rd1)

Freq ==
    /\ pc = "body"
    /\ \E val \in FreqVals, value_type \in OpBytes :
         read_object(value_type,
                     [meta EXCEPT !.evict = EvictOf(RDB_OPCODE_FREQ, val)],
                     [NoOp EXCEPT !.evict = <<RDB_OPCODE_FREQ, val>>])

Idle ==
    /\ pc = "body"
    /\ \E val \in IdleVals, value_type \in OpBytes :
         read_object(value_type,
                     [meta EXCEPT !.evict = EvictOf(RDB_OPCODE_IDLE, val)],
                     [NoOp EXCEPT !.evict = <<RDB_OPCODE_IDLE, val>>])

\* RDB_OPCODE_MODULE_AUX => unimplemented!()
ModuleAux ==
    /\ pc = "body"
    /\ op' = [NoOp EXCEPT !.code = "MODULE_AUX"]
    /\ pc' = "panic"
    /\ UNCHANGED <<running, rdb_version, db, meta, rec, cur, hist>>
    /\ UNCHANGED <<resp_vars, len_vars, open_vars, fn_vars>>

\* Variant of ChecksumBytes: the checksum is read whatever the version.
\* C18_EofChecksum tells it from ChecksumBytes.
ChecksumBytesAlways(version) == 8

\* `if rdb_version >= 5 { input.read_integer(8, true)?; }`: the bytes the EOF
\* arm consumes after the opcode.
ChecksumBytes(version) == IF version >= 5 THEN 8 ELSE 0

\* RDB_OPCODE_EOF: the checksum if rdb_version >= 5; break; handle(EOR); Ok(()).
Eof ==
    /\ pc = "body"
    /\ op' = [NoOp EXCEPT !.code = "EOF", !.extra = ChecksumBytes(rdb_version)]
    /\ Deliver(FinalEvent)
    /\ pc' = "ok"
    /\ UNCHANGED <<running, rdb_version, db, meta, rec>>
    /\ UNCHANGED <<resp_vars, len_vars, open_vars, fn_vars>>

SpecialOpcodes ==
    {RDB_OPCODE_AUX, RDB_OPCODE_SELECTDB, RDB_OPCODE_RESIZEDB, RDB_OPCODE_EXPIRETIME,
     RDB_OPCODE_EXPIRETIME_MS, RDB_OPCODE_FREQ, RDB_OPCODE_IDLE,
     RDB_OPCODE_MODULE_AUX, RDB_OPCODE_EOF}

\* `_ => self.read_object(input, data_type, event_handler, &meta)`
Other ==
    /\ pc = "body"
    /\ \E data_type \in OpBytes \ SpecialOpcodes :
         read_object(data_type, meta, NoOp)

\* Variant of BatchStep: the batches after the first carry the default db.
\* C5_SameDbPerRecord tells it from BatchStep.
BatchStepDefaultDb ==
    /\ pc = "batch"
    /\ WhileIteration(rec, [meta EXCEPT !.db = 0])
    /\ UNCHANGED <<running, rdb_version, db, meta, op>>
    /\ UNCHANGED <<resp_vars, len_vars, open_vars, fn_vars>>

\* Variant of BatchStep: the batches after the first carry a fresh meta of the
\* current db.  C7_SameKeyMeta tells it from BatchStep.
BatchStepFreshMeta ==
    /\ pc = "batch"
    /\ WhileIteration(rec, NewMeta(meta, db))
    /\ UNCHANGED <<running, rdb_version, db, meta, op>>
    /\ UNCHANGED <<resp_vars, len_vars, open_vars, fn_vars>>

\* Variant of BatchStep: the flag is polled between batches and the record is
\* left when it is false.  C13_FlagPolledAtLoopTop tells it from BatchStep.
BatchStepPolls ==
    /\ pc = "batch"
    /\ IF running
       THEN WhileIteration(rec, meta)
       ELSE /\ pc' = "cond"
            /\ rec' = [rec EXCEPT !.has_more = FALSE]
            /\ UNCHANGED <<cur, hist>>
    /\ UNCHANGED <<running, rdb_version, db, meta, op>>
    /\ UNCHANGED <<resp_vars, len_vars, open_vars, fn_vars>>

\* A further iteration of `while has_more` in read_object.
BatchStep ==
    /\ pc = "batch"
    /\ WhileIteration(rec, meta)
    /\ UNCHANGED <<running, rdb_version, db, meta, op>>
    /\ UNCHANGED <<resp_vars, len_vars, open_vars, fn_vars>>

Next ==
    \/ Begin
    \/ ClearRunning
    \/ LoopCond
    \/ ReadFail
    \/ Aux
    \/ SelectDb
    \/ ResizeDb
    \/ Expire
    \/ Freq
    \/ Idle
    \/ ModuleAux
    \/ Eof
    \/ Other
    \/ BatchStep

Spec == Init /\ [][Next]_vars

(***************************************************************************)
(* The RESP framer: StandaloneEventListener::response(read_bytes) and      *)
(* read_bytes (src/src/lib.rs).                                            *)
(***************************************************************************)
\* Bounds of the inputs explored.  Lines hold up to MaxLine bytes before CR.
MaxLine == 2
\* The bytes found where a frame starts: every tag and a byte that is none.
TagBytes == {PLUS, MINUS, COLON, DOLLAR, STAR, 97}
\* The bytes found in the line of a '+', '-' or ':' frame: a letter, a LF
\* before any CR, and 0xFF, which no UTF-8 text contains.
PayloadBytes == {97, LF, 255}
\* The bytes found in the length line of a '$' or '*' frame.
LengthBytes == {MINUS, 48, 49, 50, 97, 255}
\* The byte found after CR.
AfterCrBytes == {LF, 97}
\* The bytes found in a bulk body and in the two bytes after it.
BodyBytes == {97, CR}
EndBytes == {CR, LF, 97}
\* The declared lengths and counts followed further: every negative one,
\* zero, one and two.
LengthsRead == -99..2
\* The depths at which an array with children is followed: the array
\* response was called for, and an array that is its child.
Depths == {0, 1}
\* The declared counts followed for an array that is itself a child.
NestedCounts == {1}

\* Data<Vec<u8>, Vec<Vec<u8>>> and Error, as one record; NoRet before
\* response has returned.
Bytes(b) == [type |-> "Bytes", kind |-> "", val |-> b]
BytesVec(v) == [type |-> "BytesVec", kind |-> "", val |-> v]
Empty == [type |-> "Empty", kind |-> "", val |-> <<>>]
Failure(kind, msg) == [type |-> "Err", kind |-> kind, val |-> msg]
NoRet == [type |-> "none", kind |-> "", val |-> <<>>]

\* The last call of read_bytes: its length argument, the bytes it consumed,
\* and what it returned.
NoRb == [length |-> 0, taken |-> <<>>, ret |-> NoRet]

\* String::from_utf8(bytes) is Ok: over the bytes explored, every byte but
\* 0xFF is ASCII.
Utf8Ok(bytes) == \A i \in 1..Len(bytes) : bytes[i] < 128

IsDigit(b) == b >= 48 /\ b <= 57

RECURSIVE DigitsValue(_)
DigitsValue(digits) ==
    IF digits = <<>> THEN 0
    ELSE 10 * DigitsValue(SubSeq(digits, 1, Len(digits) - 1)) + (digits[Len(digits)] - 48)

\* length.parse::<isize>(): an optional sign and at least one digit; <<v>> for
\* Ok(v), None for Err.  Lines of MaxLine bytes are far from overflow.
ParseIsize(bytes) ==
    LET signed == bytes # <<>> /\ bytes[1] \in {PLUS, MINUS}
        digits == IF signed THEN Tail(bytes) ELSE bytes
    IN  IF digits = <<>> \/ \E i \in 1..Len(digits) : ~IsDigit(digits[i])
        THEN None
        ELSE <<(IF signed /\ bytes[1] = MINUS THEN -1 ELSE 1) * DigitsValue(digits)>>

\* `return Err(..)`, and `?` in every enclosing call of response.
Fail(r, kind, msg) ==
    [r EXCEPT !.pc = "err", !.stack = <<>>, !.ret = Failure(kind, msg)]

\* unwrap() of an Err: the thread panics.
Panic(r) == [r EXCEPT !.pc = "panic", !.stack = <<>>]

RECURSIVE Return(_, _)
\* `return Ok(v)`: to the caller of response if no array is being read, else
\* into the `for _ in 0..length` loop of the array that asked for this child.
\* leaves records, in the order read, the payload of every child that
\* returned Bytes.
Return(r, v) ==
    IF r.stack = <<>>
    THEN [r EXCEPT !.pc = "ok", !.ret = v]
    ELSE LET top == r.stack[Len(r.stack)]
             rest == SubSeq(r.stack, 1, Len(r.stack) - 1)
         IN  IF v.type = "Empty"
             THEN Fail(r, "InvalidData", "Expect Redis response, but got empty")
             ELSE LET result == IF v.type = "Bytes" THEN Append(top.result, v.val)
                                ELSE top.result \o v.val
                      leaves == IF v.type = "Bytes" THEN Append(r.leaves, v.val)
                                ELSE r.leaves
                  IN  IF top.left = 1
                      THEN Return([r EXCEPT !.stack = rest, !.leaves = leaves],
                                  BytesVec(result))
                      ELSE [r EXCEPT !.pc = "tag", !.leaves = leaves,
                                     !.stack = Append(rest, [left |-> top.left - 1,
                                                             result |-> result])]

\* Variant of read_bytes: a length of zero is answered like a negative one,
\* without the two bytes after it.  C20_BulkConsumes tells it from read_bytes.
read_bytesZeroIsNull(r, length) ==
    IF length > 0
    THEN [r EXCEPT !.pc = "body", !.length = length, !.body = <<>>,
                   !.rb = [NoRb EXCEPT !.length = length]]
    ELSE Return([r EXCEPT !.length = length,
                          !.rb = [length |-> length, taken |-> <<>>, ret |-> Empty]],
                Empty)

\* read_bytes(socket, length, _) up to its first read: the negative length
\* returns Empty at once.
read_bytes(r, length) ==
    IF length > 0
    THEN [r EXCEPT !.pc = "body", !.length = length, !.body = <<>>,
                   !.rb = [NoRb EXCEPT !.length = length]]
    ELSE IF length = 0
    THEN [r EXCEPT !.pc = "end", !.length = length, !.body = <<>>,
                   !.rb = [NoRb EXCEPT !.length = length]]
    ELSE Return([r EXCEPT !.length = length,
                          !.rb = [length |-> length, taken |-> <<>>, ret |-> Empty]],
                Empty)

\* The line of a '+', '-' or ':' frame, CR LF read.
LineReply(r) ==
    IF r.tag = PLUS \/ r.tag = COLON
    THEN Return(r, Bytes(r.line))
    ELSE IF Utf8Ok(r.line)
    THEN Fail(r, "InvalidInput", r.line)
    ELSE Panic(r)

RespInit ==
    /\ pc = "start"
    /\ running = TRUE
    /\ rdb_version = 0
    /\ db = 0
    /\ meta = [db |-> 0, expire |-> None, evict |-> None]
    /\ rec = NoRec
    /\ op = NoOp
    /\ cur = <<>>
    /\ hist = [first |-> "none", bor |-> 0, eor |-> 0, selected |-> 0,
               keyDb |-> [k \in Keys |-> {}]]
    /\ resp = [pc |-> "tag", tag |-> 0, line |-> <<>>, length |-> 0, body |-> <<>>,
               consumed |-> 0, stack |-> <<>>, leaves |-> <<>>, ret |-> NoRet,
               rb |-> NoRb]
    /\ rl = NoLen
    /\ drv = NoDrv
    /\ rs = NoFn /\ zl = NoFn /\ ids = NoFn

\* Variant of RespTag: a byte that is no RESP tag is a failure.
\* C37_UnknownTagIsEmpty tells it from RespTag.
RespTagStrict ==
    /\ resp.pc = "tag"
    /\ \E b \in TagBytes :
         LET r == [resp EXCEPT !.consumed = @ + 1, !.tag = b, !.line = <<>>]
         IN  resp' = IF b \in {PLUS, MINUS, COLON, DOLLAR, STAR}
                     THEN [r EXCEPT !.pc = "line"]
                     ELSE Fail(r, "InvalidData", "Unknown response type")
    /\ UNCHANGED <<rdb_vars, len_vars, open_vars, fn_vars>>

\* `let response_type = socket.read_u8()?; match response_type { .. _ => break }`
RespTag ==
    /\ resp.pc = "tag"
    /\ \E b \in TagBytes :
         LET r == [resp EXCEPT !.consumed = @ + 1, !.tag = b, !.line = <<>>]
         IN  resp' = IF b \in {PLUS, MINUS, COLON, DOLLAR, STAR}
                     THEN [r EXCEPT !.pc = "line"]
                     ELSE Return(r, Empty)
    /\ UNCHANGED <<rdb_vars, len_vars, open_vars, fn_vars>>

\* `let byte = socket.read_u8()?; if byte != CR { bytes.push(byte) } else { break }`
RespLine ==
    /\ resp.pc = "line"
    /\ \/ /\ Len(resp.line) < MaxLine
          /\ \E b \in (IF resp.tag \in {DOLLAR, STAR} THEN LengthBytes ELSE PayloadBytes) :
               resp' = [resp EXCEPT !.consumed = @ + 1, !.line = Append(@, b)]
       \/ resp' = [resp EXCEPT !.consumed = @ + 1, !.pc = "lf"]
    /\ UNCHANGED <<rdb_vars, len_vars, open_vars, fn_vars>>

\* `let byte = socket.read_u8()?; if byte == LF { .. } else { Err(InvalidData) }`
RespLf ==
    /\ resp.pc = "lf"
    /\ \E b \in AfterCrBytes :
         LET r == [resp EXCEPT !.consumed = @ + 1]
         IN  IF b # LF
             THEN resp' = Fail(r, "InvalidData", "Expect LF after CR")
             ELSE IF r.tag \in {PLUS, MINUS, COLON}
             THEN resp' = LineReply(r)
             ELSE IF ~Utf8Ok(r.line) \/ ParseIsize(r.line) = None
             THEN resp' = Panic(r)
             ELSE LET length == ParseIsize(r.line)[1]
                  IN  /\ length \in LengthsRead
                      /\ IF r.tag = DOLLAR
                         THEN resp' = read_bytes(r, length)
                         ELSE IF length <= 0
                         THEN resp' = Return(r, Empty)
                         ELSE /\ Len(r.stack) \in Depths
                              /\ r.stack # <<>> => length \in NestedCounts
                              /\ resp' = [r EXCEPT !.pc = "tag",
                                                   !.stack = Append(@, [left |-> length,
                                                                        result |-> <<>>])]
    /\ UNCHANGED <<rdb_vars, len_vars, open_vars, fn_vars>>

\* `for _ in 0..length { bytes.push(socket.read_u8()?); }`, a byte a step
RespBody ==
    /\ resp.pc = "body"
    /\ \E b \in BodyBytes :
         resp' = [resp EXCEPT !.consumed = @ + 1,
                              !.body = Append(@, b),
                              !.rb.taken = Append(@, b),
                              !.pc = IF Len(resp.body) + 1 = resp.length THEN "end" ELSE "body"]
    /\ UNCHANGED <<rdb_vars, len_vars, open_vars, fn_vars>>

\* `socket.read_exact(end)?` and what follows it in read_bytes
RespEnd ==
    /\ resp.pc = "end"
    /\ \E e1 \in EndBytes, e2 \in EndBytes :
         LET taken == resp.rb.taken \o <<e1, e2>>
             r == [resp EXCEPT !.consumed = @ + 2]
         IN  IF r.length > 0
             THEN IF <<e1, e2>> = <<CR, LF>>
                  THEN resp' = Return([r EXCEPT !.rb = [length |-> r.length, taken |-> taken,
                                                       ret |-> Bytes(r.body)]],
                                      Bytes(r.body))
                  ELSE resp' = Fail([r EXCEPT !.rb.taken = taken], "Other",
                                    "Expect CRLF after bulk string")
             ELSE resp' = Return([r EXCEPT !.rb = [length |-> r.length, taken |-> taken,
                                                  ret |-> Empty]],
                                 Empty)
    /\ UNCHANGED <<rdb_vars, len_vars, open_vars, fn_vars>>

\* A read of the socket fails: `?` returns the failure of the read.
RespReadFail ==
    /\ resp.pc \in {"tag", "line", "lf", "body", "end"}
    /\ resp' = Fail(resp, "io", "")
    /\ UNCHANGED <<rdb_vars, len_vars, open_vars, fn_vars>>

RespNext ==
    \/ RespTag
    \/ RespLine
    \/ RespLf
    \/ RespBody
    \/ RespEnd
    \/ RespReadFail

RespSpec == RespInit /\ [][RespNext]_vars

(***************************************************************************)
(* read_length and read_integer (src/src/lib.rs).  An isize is held as its *)
(* eight two's-complement bytes, most significant first: a 64-bit value    *)
(* keeps its width and its sign.                                           *)
(***************************************************************************)
\* The first byte read: every byte.
FirstBytes == 0..255
\* The bytes read after the first.
NextBytes == {0, 1, 128, 255}

\* The decoder is not running: its variables keep their start values.
RdbIdle ==
    /\ pc = "start"
    /\ running = TRUE
    /\ rdb_version = 0
    /\ db = 0
    /\ meta = [db |-> 0, expire |-> None, evict |-> None]
    /\ rec = NoRec
    /\ op = NoOp
    /\ cur = <<>>
    /\ hist = [first |-> "none", bor |-> 0, eor |-> 0, selected |-> 0,
               keyDb |-> [k \in Keys |-> {}]]

\* `n as isize`, for n within 32 bits.
Isize(n) ==
    LET s == IF n < 0 THEN 255 ELSE 0
    IN  <<s, s, s, s, (n \div 16777216) % 256, (n \div 65536) % 256,
          (n \div 256) % 256, n % 256>>

\* The isize is negative.
IsNegative(val) == val[1] >= 128

\* `cursor.read_iN::<BigEndian>()? as isize`: the bytes, sign-extended.
SignExtend(be) ==
    LET pad == 8 - Len(be)
    IN  [i \in 1..8 |-> IF i <= pad THEN (IF be[1] >= 128 THEN 255 ELSE 0)
                        ELSE be[i - pad]]

Reverse(bytes) == [i \in 1..Len(bytes) |-> bytes[Len(bytes) + 1 - i]]

\* Variant of read_integer: the bytes are taken least significant first
\* whatever the flag says.  C29_PrefixTable tells it from read_integer.
read_integerLittle(buff, size, is_big_endian) ==
    IF size \in {2, 4, 8} THEN <<SignExtend(Reverse(buff))>> ELSE None

\* read_integer(socket, size, is_big_endian) once read_exact has filled buff:
\* <<v>> for Ok(v), None for Err(InvalidData, "Invalid integer size").
read_integer(buff, size, is_big_endian) ==
    IF size \in {2, 4, 8}
    THEN <<SignExtend(IF is_big_endian THEN buff ELSE Reverse(buff))>>
    ELSE None

\* `Ok(Length { val: result, is_special })`
Length(r, val, is_special) ==
    [r EXCEPT !.pc = "ok", !.val = val, !.is_special = is_special]

LenInit ==
    /\ RdbIdle
    /\ resp = NoResp
    /\ drv = NoDrv
    /\ rl = [pc |-> "first", byte |-> 0, size |-> 0, buff |-> <<>>, consumed |-> 0,
             val |-> <<>>, is_special |-> FALSE]
    /\ rs = NoFn /\ zl = NoFn /\ ids = NoFn

\* `let byte = socket.read_u8()?;` and the chain of tests on it.  result
\* starts as -1 and is_special as false.
ReadLengthFirst ==
    /\ rl.pc = "first"
    /\ \E byte \in FirstBytes :
         LET byte_and == byte % 256
             _type == (byte \div 64) % 4
             r == [rl EXCEPT !.byte = byte, !.consumed = 1]
         IN  rl' = IF _type = 3 THEN Length(r, Isize(byte % 64), TRUE)
                   ELSE IF _type = 0 THEN Length(r, Isize(byte % 64), FALSE)
                   ELSE IF _type = 1 THEN [r EXCEPT !.pc = "next"]
                   ELSE IF byte_and = 128 THEN [r EXCEPT !.pc = "integer", !.size = 4]
                   ELSE IF byte_and = 129 THEN [r EXCEPT !.pc = "integer", !.size = 8]
                   ELSE Length(r, Isize(-1), FALSE)
    /\ UNCHANGED <<rdb_vars, resp_vars, open_vars, fn_vars>>

\* `let next_byte = socket.read_u8()?;
\*  result = (((byte as u16 & 0x3F) << 8) | next_byte as u16) as isize;`
ReadLengthNext ==
    /\ rl.pc = "next"
    /\ \E next_byte \in NextBytes :
         rl' = Length([rl EXCEPT !.buff = <<next_byte>>, !.consumed = @ + 1],
                      Isize((rl.byte % 64) * 256 + next_byte), FALSE)
    /\ UNCHANGED <<rdb_vars, resp_vars, open_vars, fn_vars>>

\* `result = read_integer(socket, size, true)?`: read_exact fills buff a byte
\* a step; the last byte makes read_integer return.
ReadInteger ==
    /\ rl.pc = "integer"
    /\ \E b \in NextBytes :
         LET r == [rl EXCEPT !.buff = Append(@, b), !.consumed = @ + 1]
         IN  rl' = IF Len(r.buff) < r.size THEN r
                   ELSE IF read_integer(r.buff, r.size, TRUE) = None
                   THEN [r EXCEPT !.pc = "err"]
                   ELSE Length(r, read_integer(r.buff, r.size, TRUE)[1], FALSE)
    /\ UNCHANGED <<rdb_vars, resp_vars, open_vars, fn_vars>>

\* A read of the socket fails: `?` returns the failure.
ReadLengthFail ==
    /\ rl.pc \in {"first", "next", "integer"}
    /\ rl' = [rl EXCEPT !.pc = "err"]
    /\ UNCHANGED <<rdb_vars, resp_vars, open_vars, fn_vars>>

LenNext ==
    \/ ReadLengthFirst
    \/ ReadLengthNext
    \/ ReadInteger
    \/ ReadLengthFail

LenSpec == LenInit /\ [][LenNext]_vars

(***************************************************************************)
(* read_string (src/src/lib.rs).  It calls read_length, which is the       *)
(* machine above, and goes on from what that returned.                     *)
(***************************************************************************)
\* Bound: the longest raw payload whose read is followed.
MaxPayload == 2

\* The integer an isize within 32 bits stands for.
IntOf(val) ==
    (val[5] - (IF val[5] >= 128 THEN 256 ELSE 0)) * 16777216
    + val[6] * 65536 + val[7] * 256 + val[8]

\* The isize fits 32 bits.
Fits32(val) ==
    \A i \in 1..4 : val[i] = (IF val[5] >= 128 THEN 255 ELSE 0)

RECURSIVE DecimalDigits(_)
\* The decimal digits of n <= 0 taken as a magnitude, as ASCII bytes.
DecimalDigits(n) ==
    LET last == (10 - (n % 10)) % 10
        rest == (n + last) \div 10
    IN  IF rest = 0 THEN <<48 + last>>
        ELSE Append(DecimalDigits(rest), 48 + last)

\* `int.to_string().as_bytes().to_vec()`
ToDecimal(n) == IF n < 0 THEN <<MINUS>> \o DecimalDigits(n) ELSE DecimalDigits(-n)

\* Variant of EncodedSize: every integer encoding is one byte long.
\* C32_SpecialEncodings tells it from EncodedSize.
EncodedSizeByte(val) == 1

\* The bytes read for the integer encodings 0, 1 and 2: read_i8,
\* read_integer(socket, 2, false), read_integer(socket, 4, false).
EncodedSize(val) == IF val = 0 THEN 1 ELSE IF val = 1 THEN 2 ELSE 4

\* `return Err(..)` and `?` in read_string
StringFails(r, kind, msg) == [r EXCEPT !.pc = "err", !.ret = Failure(kind, msg)]

StrInit ==
    /\ RdbIdle
    /\ resp = NoResp
    /\ drv = NoDrv
    /\ rl = [pc |-> "first", byte |-> 0, size |-> 0, buff |-> <<>>, consumed |-> 0,
             val |-> <<>>, is_special |-> FALSE]
    /\ rs = [pc |-> "length", size |-> 0, buff |-> <<>>, ret |-> NoRet]
    /\ zl = NoFn
    /\ ids = NoFn

\* `let length = read_length(socket)?;` has returned: the match on a special
\* length, or `vec![0; length.val as usize]`, which panics on a negative
\* length.  A raw payload longer than MaxPayload is not followed.
ReadStringLength ==
    /\ rs.pc = "length"
    /\ rl.pc \in {"ok", "err"}
    /\ IF rl.pc = "err" THEN rs' = StringFails(rs, "io", <<>>)
       ELSE IF rl.is_special
       THEN rs' = IF IntOf(rl.val) \in {0, 1, 2}
                  THEN [rs EXCEPT !.pc = "int", !.size = EncodedSize(IntOf(rl.val))]
                  ELSE IF IntOf(rl.val) = 3 THEN [rs EXCEPT !.pc = "lzf"]
                  ELSE StringFails(rs, "InvalidData", "Invalid string length")
       ELSE IF IsNegative(rl.val) THEN rs' = [rs EXCEPT !.pc = "panic"]
       ELSE /\ Fits32(rl.val)
            /\ IntOf(rl.val) <= MaxPayload
            /\ rs' = IF IntOf(rl.val) = 0
                     THEN [rs EXCEPT !.pc = "ok", !.ret = Bytes(<<>>)]
                     ELSE [rs EXCEPT !.pc = "payload", !.size = IntOf(rl.val)]
    /\ UNCHANGED <<rdb_vars, resp_vars, len_vars, open_vars, zl, ids>>

\* `socket.read_exact(&mut buff)?; Ok(Bytes(buff))`, a byte a step
ReadStringPayload ==
    /\ rs.pc = "payload"
    /\ \E b \in NextBytes :
         LET r == [rs EXCEPT !.buff = Append(@, b)]
         IN  rs' = IF Len(r.buff) < r.size THEN r
                   ELSE [r EXCEPT !.pc = "ok", !.ret = Bytes(r.buff)]
    /\ UNCHANGED <<rdb_vars, resp_vars, len_vars, open_vars, zl, ids>>

\* `socket.read_i8()?` or `read_integer(socket, size, false)?`, a byte a
\* step, and `Ok(Bytes(int.to_string().as_bytes().to_vec()))`
ReadStringInteger ==
    /\ rs.pc = "int"
    /\ \E b \in NextBytes :
         LET r == [rs EXCEPT !.buff = Append(@, b)]
             int == IF r.size = 1 THEN SignExtend(r.buff)
                    ELSE read_integer(r.buff, r.size, FALSE)[1]
         IN  rs' = IF Len(r.buff) < r.size THEN r
                   ELSE [r EXCEPT !.pc = "ok", !.ret = Bytes(ToDecimal(IntOf(int)))]
    /\ UNCHANGED <<rdb_vars, resp_vars, len_vars, open_vars, zl, ids>>

\* The LZF encoding: two more lengths, the compressed bytes and
\* lzf::decompress.  A read fails, a buffer is sized from a negative length,
\* or some bytes come back.
ReadStringLzf ==
    /\ rs.pc = "lzf"
    /\ \/ rs' = StringFails(rs, "io", <<>>)
       \/ rs' = [rs EXCEPT !.pc = "panic"]
       \/ \E b \in NextBytes : rs' = [rs EXCEPT !.pc = "ok", !.ret = Bytes(<<b>>)]
    /\ UNCHANGED <<rdb_vars, resp_vars, len_vars, open_vars, zl, ids>>

\* A read of the payload fails: `?` returns the failure.
ReadStringFail ==
    /\ rs.pc \in {"payload", "int"}
    /\ rs' = StringFails(rs, "io", <<>>)
    /\ UNCHANGED <<rdb_vars, resp_vars, len_vars, open_vars, zl, ids>>

StrNext ==
    \/ LenNext
    \/ ReadStringLength
    \/ ReadStringPayload
    \/ ReadStringInteger
    \/ ReadStringLzf
    \/ ReadStringFail

StrSpec == StrInit /\ [][StrNext]_vars

(***************************************************************************)
(* read_zip_list_entry (src/src/rdb.rs), on a cursor over the bytes of a   *)
(* ziplist.                                                                *)
(***************************************************************************)
ZIP_INT_8BIT == 254
ZIP_INT_16BIT == 192
ZIP_INT_24BIT == 240
ZIP_INT_32BIT == 208
ZIP_INT_64BIT == 224

\* The first byte of an entry, the length of the entry before it.
PrevBytes == {0, 253, 254, 255}
\* The encoding byte: every byte.
FlagBytes == 0..255

\* The bytes read for each integer encoding.
ZipIntSize(flag) ==
    IF flag = ZIP_INT_8BIT THEN 1
    ELSE IF flag = ZIP_INT_16BIT THEN 2
    ELSE IF flag = ZIP_INT_24BIT THEN 3
    ELSE IF flag = ZIP_INT_32BIT THEN 4
    ELSE 8

\* Variant of SmallInt: the low four bits of the encoding byte.
\* C33_SmallIntegers tells it from SmallInt.
SmallIntLowBits(flag) == flag % 16

\* `flag - 0xF1` where it does not underflow.
SmallInt(flag) == flag - 241

\* `return Err(..)` and `?` in read_zip_list_entry
ZipFails(z) == [z EXCEPT !.pc = "err"]

\* `Ok(buff)` and `Ok(int.to_string().into_bytes())`
ZipReturns(z, bytes) == [z EXCEPT !.pc = "ok", !.ret = bytes]

ZipInit ==
    /\ RdbIdle
    /\ resp = NoResp
    /\ drv = NoDrv
    /\ rl = NoLen
    /\ rs = NoFn
    /\ ids = NoFn
    /\ zl = [pc |-> "prev", flag |-> -1, size |-> 0, buff |-> <<>>, data |-> 0,
             ret |-> <<>>, wrapped |-> FALSE]

\* `if cursor.read_u8()? >= 254 { cursor.read_u32::<LittleEndian>()?; }`
ZipPrevLen ==
    /\ zl.pc = "prev"
    /\ \E b \in PrevBytes :
         \/ zl' = [zl EXCEPT !.pc = "flag"]
         \/ b >= 254 /\ zl' = ZipFails(zl)
    /\ UNCHANGED <<rdb_vars, resp_vars, len_vars, open_vars, rs, ids>>

\* `let flag = cursor.read_u8()?;` and the two matches on it, up to the next
\* read.  In the last arm the u8 subtraction underflows for flag < 0xF1: a
\* build with overflow checks panics, one without wraps modulo 256.  data
\* counts the bytes read after the encoding byte.
ZipFlag ==
    /\ zl.pc = "flag"
    /\ \E flag \in FlagBytes :
         LET z == [zl EXCEPT !.flag = flag]
         IN  IF flag \div 64 = 0
             THEN zl' = IF flag % 64 = 0 THEN ZipReturns(z, <<>>)
                        ELSE [z EXCEPT !.pc = "payload", !.size = flag % 64]
             ELSE IF flag \div 64 = 1 THEN zl' = [z EXCEPT !.pc = "next"]
             ELSE IF flag \div 64 = 2 THEN zl' = [z EXCEPT !.pc = "len4", !.size = 4]
             ELSE IF flag \in {ZIP_INT_8BIT, ZIP_INT_16BIT, ZIP_INT_24BIT,
                               ZIP_INT_32BIT, ZIP_INT_64BIT}
             THEN zl' = [z EXCEPT !.pc = "int", !.size = ZipIntSize(flag)]
             ELSE IF flag >= 241
             THEN zl' = ZipReturns(z, ToDecimal(SmallInt(flag)))
             ELSE \/ zl' = [z EXCEPT !.pc = "panic"]
                  \/ zl' = ZipReturns([z EXCEPT !.wrapped = TRUE],
                                      ToDecimal((flag - 241) % 256))
    /\ UNCHANGED <<rdb_vars, resp_vars, len_vars, open_vars, rs, ids>>

\* `let next_byte = cursor.read_u8()?;
\*  let length = (((flag as u16) & 0x3F) << 8) | (next_byte as u16);`
ZipNext ==
    /\ zl.pc = "next"
    /\ \E next_byte \in NextBytes :
         LET length == (zl.flag % 64) * 256 + next_byte
             z == [zl EXCEPT !.data = @ + 1]
         IN  /\ length <= MaxPayload
             /\ zl' = IF length = 0 THEN ZipReturns(z, <<>>)
                      ELSE [z EXCEPT !.pc = "payload", !.size = length]
    /\ UNCHANGED <<rdb_vars, resp_vars, len_vars, open_vars, rs, ids>>

\* `let length = cursor.read_u32::<BigEndian>()?;`, a byte a step
ZipLength ==
    /\ zl.pc = "len4"
    /\ \E b \in NextBytes :
         LET z == [zl EXCEPT !.buff = Append(@, b), !.data = @ + 1]
         IN  IF Len(z.buff) < 4 THEN zl' = z
             ELSE /\ z.buff[1] = 0 /\ z.buff[2] = 0 /\ z.buff[3] = 0
                  /\ z.buff[4] <= MaxPayload
                  /\ zl' = IF z.buff[4] = 0 THEN ZipReturns([z EXCEPT !.buff = <<>>], <<>>)
                           ELSE [z EXCEPT !.pc = "payload", !.size = z.buff[4],
                                          !.buff = <<>>]
    /\ UNCHANGED <<rdb_vars, resp_vars, len_vars, open_vars, rs, ids>>

\* `cursor.read_exact(&mut buff)?; return Ok(buff);`, a byte a step.  A
\* payload longer than MaxPayload is not followed.
ZipPayload ==
    /\ zl.pc = "payload"
    /\ zl.size <= MaxPayload
    /\ \E b \in NextBytes :
         LET z == [zl EXCEPT !.buff = Append(@, b), !.data = @ + 1]
         IN  zl' = IF Len(z.buff) < z.size THEN z ELSE ZipReturns(z, z.buff)
    /\ UNCHANGED <<rdb_vars, resp_vars, len_vars, open_vars, rs, ids>>

\* `cursor.read_iN::<LittleEndian>()?` and `Ok(int.to_string().into_bytes())`,
\* a byte a step.  A 64-bit value that does not fit 32 bits is not followed.
ZipInteger ==
    /\ zl.pc = "int"
    /\ \E b \in NextBytes :
         LET z == [zl EXCEPT !.buff = Append(@, b), !.data = @ + 1]
             int == SignExtend(Reverse(z.buff))
         IN  IF Len(z.buff) < z.size THEN zl' = z
             ELSE /\ Fits32(int)
                  /\ zl' = ZipReturns(z, ToDecimal(IntOf(int)))
    /\ UNCHANGED <<rdb_vars, resp_vars, len_vars, open_vars, rs, ids>>

\* The cursor is at its end: a read returns UnexpectedEof.
ZipFail ==
    /\ zl.pc \in {"prev", "flag", "next", "len4", "payload", "int"}
    /\ zl' = ZipFails(zl)
    /\ UNCHANGED <<rdb_vars, resp_vars, len_vars, open_vars, rs, ids>>

ZipNextStep ==
    \/ ZipPrevLen
    \/ ZipFlag
    \/ ZipNext
    \/ ZipLength
    \/ ZipPayload
    \/ ZipInteger
    \/ ZipFail

ZipSpec == ZipInit /\ [][ZipNextStep]_vars

(***************************************************************************)
(* The stream ID and its comparisons: impl PartialEq, PartialOrd and Ord   *)
(* for ID (src/src/rdb.rs).  ms and seq are compared, never computed with, *)
(* so a few values on both sides of zero stand for the i64 range.          *)
(***************************************************************************)
\* The values of ms and of seq.
IdParts == {-1, 0, 1, 2}
IDs == [ms : IdParts, seq : IdParts]

\* i64::cmp
i64_cmp(x, y) == IF x < y THEN "Less" ELSE IF x = y THEN "Equal" ELSE "Greater"

\* Variant of cmp: seq decides before ms.  C34_IdOrder tells it from cmp.
cmpSeqFirst(self, other) ==
    LET order == i64_cmp(self.seq, other.seq)
    IN  IF order = "Equal" THEN i64_cmp(self.ms, other.ms) ELSE order

\* Ord::cmp for ID
cmp(self, other) ==
    LET order == i64_cmp(self.ms, other.ms)
    IN  IF order = "Equal" THEN i64_cmp(self.seq, other.seq) ELSE order

\* PartialEq::eq and ne
eq(self, other) == self.ms = other.ms /\ self.seq = other.seq
ne(self, other) == self.ms # other.ms \/ self.seq # other.seq

\* PartialOrd::partial_cmp, lt, le, gt, ge
partial_cmp(self, other) == <<cmp(self, other)>>
lt(self, other) == cmp(self, other) = "Less"
le(self, other) == cmp(self, other) \in {"Less", "Equal"}
gt(self, other) == cmp(self, other) = "Greater"
ge(self, other) == cmp(self, other) \in {"Equal", "Greater"}

\* What a comparison not made yet has given.
NotYet == "none"

IdInit ==
    /\ RdbIdle
    /\ resp = NoResp
    /\ drv = NoDrv
    /\ rl = NoLen
    /\ rs = NoFn
    /\ zl = NoFn
    /\ \E a \in IDs, b \in IDs :
         ids = [a |-> a, b |-> b, eq |-> NotYet, ne |-> NotYet, lt |-> NotYet,
                le |-> NotYet, gt |-> NotYet, ge |-> NotYet, cmp |-> NotYet,
                partial_cmp |-> NotYet]

\* Booleans and orderings as what is recorded of them.
Shown(v) == IF v = TRUE THEN "true" ELSE "false"

\* a == b
IdEq ==
    /\ ids.eq = NotYet
    /\ ids' = [ids EXCEPT !.eq = Shown(eq(ids.a, ids.b))]
    /\ UNCHANGED <<rdb_vars, resp_vars, len_vars, open_vars, rs, zl>>

\* a != b
IdNe ==
    /\ ids.ne = NotYet
    /\ ids' = [ids EXCEPT !.ne = Shown(ne(ids.a, ids.b))]
    /\ UNCHANGED <<rdb_vars, resp_vars, len_vars, open_vars, rs, zl>>

\* a < b
IdLt ==
    /\ ids.lt = NotYet
    /\ ids' = [ids EXCEPT !.lt = Shown(lt(ids.a, ids.b))]
    /\ UNCHANGED <<rdb_vars, resp_vars, len_vars, open_vars, rs, zl>>

\* a <= b
IdLe ==
    /\ ids.le = NotYet
    /\ ids' = [ids EXCEPT !.le = Shown(le(ids.a, ids.b))]
    /\ UNCHANGED <<rdb_vars, resp_vars, len_vars, open_vars, rs, zl>>

\* a > b
IdGt ==
    /\ ids.gt = NotYet
    /\ ids' = [ids EXCEPT !.gt = Shown(gt(ids.a, ids.b))]
    /\ UNCHANGED <<rdb_vars, resp_vars, len_vars, open_vars, rs, zl>>

\* a >= b
IdGe ==
    /\ ids.ge = NotYet
    /\ ids' = [ids EXCEPT !.ge = Shown(ge(ids.a, ids.b))]
    /\ UNCHANGED <<rdb_vars, resp_vars, len_vars, open_vars, rs, zl>>

\* a.cmp(&b) and a.partial_cmp(&b)
IdCmp ==
    /\ ids.cmp = NotYet
    /\ ids' = [ids EXCEPT !.cmp = cmp(ids.a, ids.b),
                          !.partial_cmp = partial_cmp(ids.a, ids.b)[1]]
    /\ UNCHANGED <<rdb_vars, resp_vars, len_vars, open_vars, rs, zl>>

IdNext ==
    \/ IdEq
    \/ IdNe
    \/ IdLt
    \/ IdLe
    \/ IdGt
    \/ IdGe
    \/ IdCmp

IdSpec == IdInit /\ [][IdNext]_vars

(***************************************************************************)
(* The listener: StandaloneEventListener::new, open, connect, auth,        *)
(* send_port, send and close (src/src/lib.rs), and the caller that opens   *)
(* it, closes it and opens it again.  A reply of the master is taken a     *)
(* frame at a time: Respond gives what response returns for a whole frame. *)
(***************************************************************************)
\* Bounds: the calls of open on one listener, and the command frames the
\* master sends once the handshake is over.
MaxOpens == 2
MaxFrames == 2

\* The passwords a listener is built with.
Passwords == {"", "123456"}
\* The text before CR LF, as words; 0xFF stands for bytes that are not UTF-8.
Lines == {<<>>, <<"OK">>, <<"NO">>, <<"CONTINUE">>, <<"FULLRESYNC", "id1", "7">>,
          <<"0xFF">>}
\* The frames read as a reply.  form is "good" for a frame that follows the
\* grammar, "nolf" for a CR not followed by LF, "badlen" for a '$' or '*'
\* whose length line is not a decimal integer, "eof" for a read that fails.
Replies ==
    [tag : {PLUS, MINUS, COLON, DOLLAR, STAR}, line : Lines, form : {"good"}]
    \cup [tag : {PLUS, DOLLAR}, line : {<<"OK">>}, form : {"nolf", "eof"}]
    \cup [tag : {DOLLAR, STAR}, line : {<<"OK">>}, form : {"badlen"}]
    \cup [tag : {97}, line : {<<>>}, form : {"good"}]
\* What parse_rdb does with the bulk it is given: it returns Ok(Empty), a
\* read fails, or read_string sizes a buffer from a negative length.
RdbOutcomes == {"ok", "err", "panic"}

\* String::from_utf8(line) is Ok.
Utf8Line(line) == \A i \in 1..Len(line) : line[i] # "0xFF"

\* resp.starts_with(prefix)
StartsWith(line, prefix) == Len(line) >= 1 /\ line[1] = prefix

\* unwrap() of an Err inside response or open.
Panicked == [type |-> "Panic", kind |-> "", val |-> <<>>]

\* response(read_bytes) on one whole frame.  A bulk or an array whose line is
\* empty is one of declared length 0; an array with a line has that line as
\* its one bulk child.
Respond(frame) ==
    IF frame.form = "eof" THEN Failure("io", <<>>)
    ELSE IF frame.tag \notin {PLUS, MINUS, COLON, DOLLAR, STAR} THEN Empty
    ELSE IF frame.form = "nolf" THEN Failure("InvalidData", <<"Expect LF after CR">>)
    ELSE IF frame.tag \in {PLUS, COLON} THEN Bytes(frame.line)
    ELSE IF frame.tag = MINUS
    THEN IF Utf8Line(frame.line) THEN Failure("InvalidInput", frame.line) ELSE Panicked
    ELSE IF frame.form = "badlen" THEN Panicked
    ELSE IF frame.line = <<>> THEN Empty
    ELSE IF frame.tag = DOLLAR THEN Bytes(frame.line)
    ELSE BytesVec(<<frame.line>>)

\* response(parse_rdb) calls parse_rdb: the frame is a '$' whose length line
\* was read and parsed.
CallsParseRdb(frame) == frame.tag = DOLLAR /\ frame.form = "good"

\* StandaloneEventListener::new(addr, password)
new(password) ==
    [pc |-> "idle", password |-> password, id |-> "?", offset |-> "-1",
     stream |-> "none", opens |-> 0, connected |-> FALSE, sent |-> <<>>,
     replies |-> <<>>, auth_reply |-> <<>>, psync_reply |-> <<>>,
     rdb_phase |-> FALSE, rdb_calls |-> 0, ret |-> NoRet, full |-> <<>>, inbound |-> 0, delivered |-> 0]

\* `return Err(..)` and `?` in open.
OpenFails(d, failure) == [d EXCEPT !.pc = "err", !.ret = failure]

\* What `self.response(read_bytes)?` leaves of open when the reply read makes
\* response fail or panic; d when open goes on.
AfterReply(d, result, next) ==
    IF result.type = "Err" THEN OpenFails(d, result)
    ELSE IF result.type = "Panic" THEN [d EXCEPT !.pc = "panic"]
    ELSE [d EXCEPT !.pc = next]

\* The listener has read one more reply: replies keeps the tag and the form
\* of every frame read during this call of open.
Read(d, frame) ==
    [d EXCEPT !.replies = Append(@, [tag |-> frame.tag, form |-> frame.form])]

\* self.send(command, args): the command is written and flushed.
send(d, command, args) == [d EXCEPT !.sent = Append(@, [cmd |-> command, args |-> args])]

\* Variant of the test open makes on the PSYNC reply: every Bytes reply
\* starts the RDB phase.  C25_RdbPhaseOnFullresync tells it from
\* IsFullresync.
IsFullresyncAlways(line) == TRUE

\* `resp.starts_with("FULLRESYNC")`
IsFullresync(line) == StartsWith(line, "FULLRESYNC")

OpenInit ==
    /\ RdbIdle
    /\ resp = NoResp
    /\ rl = NoLen
    /\ \E password \in Passwords : drv = new(password)
    /\ rs = NoFn /\ zl = NoFn /\ ids = NoFn

\* The caller calls open, and open calls connect: TcpStream::connect fails,
\* or the new stream replaces the old one, which is dropped.
Connect ==
    /\ drv.pc \in {"idle", "ok", "err"}
    /\ drv.opens < MaxOpens
    /\ LET d == [drv EXCEPT !.opens = @ + 1, !.connected = FALSE, !.sent = <<>>,
                            !.replies = <<>>, !.auth_reply = <<>>,
                            !.psync_reply = <<>>,
                            !.rdb_phase = FALSE, !.rdb_calls = 0, !.ret = NoRet,
                            !.inbound = 0, !.delivered = 0]
       IN  \/ drv' = OpenFails(d, Failure("io", <<>>))
           \/ drv' = [d EXCEPT !.pc = "auth", !.stream = "open", !.connected = TRUE]
    /\ UNCHANGED <<rdb_vars, resp_vars, len_vars, fn_vars>>

\* auth up to its response: AUTH is sent when the password is not empty.
Auth ==
    /\ drv.pc = "auth"
    /\ IF drv.password = ""
       THEN drv' = [drv EXCEPT !.pc = "port"]
       ELSE \/ drv' = OpenFails(drv, Failure("io", <<>>))
            \/ drv' = [send(drv, "AUTH", <<drv.password>>) EXCEPT !.pc = "auth_reply"]
    /\ UNCHANGED <<rdb_vars, resp_vars, len_vars, fn_vars>>

\* `self.response(read_bytes)?; Ok(())` in auth
AuthReply ==
    /\ drv.pc = "auth_reply"
    /\ \E frame \in Replies :
         drv' = AfterReply([Read(drv, frame) EXCEPT !.auth_reply = <<frame>>],
                           Respond(frame), "port")
    /\ UNCHANGED <<rdb_vars, resp_vars, len_vars, fn_vars>>

\* send_port up to its response
SendPort ==
    /\ drv.pc = "port"
    /\ \/ drv' = OpenFails(drv, Failure("io", <<>>))
       \/ drv' = [send(drv, "REPLCONF", <<"listening-port", "port">>)
                    EXCEPT !.pc = "port_reply"]
    /\ UNCHANGED <<rdb_vars, resp_vars, len_vars, fn_vars>>

\* `self.response(read_bytes)?; Ok(())` in send_port
PortReply ==
    /\ drv.pc = "port_reply"
    /\ \E frame \in Replies :
         drv' = AfterReply(Read(drv, frame), Respond(frame), "psync")
    /\ UNCHANGED <<rdb_vars, resp_vars, len_vars, fn_vars>>

\* `self.send(b"PSYNC", &[self.id.as_bytes(), replica_offset])?`
SendPsync ==
    /\ drv.pc = "psync"
    /\ \/ drv' = OpenFails(drv, Failure("io", <<>>))
       \/ drv' = [send(drv, "PSYNC", <<drv.id, drv.offset>>) EXCEPT !.pc = "psync_reply"]
    /\ UNCHANGED <<rdb_vars, resp_vars, len_vars, fn_vars>>

\* `if let Bytes(resp) = self.response(read_bytes)? { .. } else { Err(..) }`
\* full remembers the id and offset of the last FULLRESYNC line read.
PsyncReply ==
    /\ drv.pc = "psync_reply"
    /\ \E frame \in Replies :
         LET result == Respond(frame)
             d == [Read(drv, frame) EXCEPT !.psync_reply = <<frame>>]
         IN  drv' = IF result.type \in {"Err", "Panic"} THEN AfterReply(d, result, "")
                    ELSE IF result.type # "Bytes"
                    THEN OpenFails(d, Failure("InvalidData",
                                              <<"Expect Redis string response">>))
                    ELSE IF ~Utf8Line(result.val) THEN [d EXCEPT !.pc = "panic"]
                    ELSE IF IsFullresync(result.val)
                    THEN [d EXCEPT !.pc = "rdb",
                                   !.full = IF Len(result.val) = 3
                                            THEN <<[id |-> result.val[2],
                                                    offset |-> result.val[3]]>>
                                            ELSE @]
                    ELSE [d EXCEPT !.pc = "ok"]
    /\ UNCHANGED <<rdb_vars, resp_vars, len_vars, fn_vars>>

\* `self.response(parse_rdb)?;` then `Ok(())`
RdbReply ==
    /\ drv.pc = "rdb"
    /\ \E frame \in Replies :
         LET d == [Read(drv, frame) EXCEPT !.rdb_phase = TRUE]
         IN  IF CallsParseRdb(frame)
             THEN \E outcome \in RdbOutcomes :
                    drv' = IF outcome = "ok" THEN [d EXCEPT !.rdb_calls = @ + 1, !.pc = "ok"]
                           ELSE IF outcome = "err"
                           THEN OpenFails([d EXCEPT !.rdb_calls = @ + 1],
                                          Failure("io", <<>>))
                           ELSE [d EXCEPT !.rdb_calls = @ + 1, !.pc = "panic"]
             ELSE drv' = AfterReply(d, Respond(frame), "ok")
    /\ UNCHANGED <<rdb_vars, resp_vars, len_vars, fn_vars>>

\* close(&self), called once open has returned: a stream that is there is
\* shut down.
Close ==
    /\ drv.pc \in {"ok", "err"}
    /\ drv.stream = "open"
    /\ drv' = [drv EXCEPT !.stream = "shutdown"]
    /\ UNCHANGED <<rdb_vars, resp_vars, len_vars, fn_vars>>

\* The master, the handshake over, writes one more command as an array
\* frame.  No code of the listener reads it.
MasterCommand ==
    /\ drv.pc = "ok"
    /\ drv.stream = "open"
    /\ drv.inbound < MaxFrames
    /\ drv' = [drv EXCEPT !.inbound = @ + 1]
    /\ UNCHANGED <<rdb_vars, resp_vars, len_vars, fn_vars>>

OpenNext ==
    \/ Connect
    \/ Auth
    \/ AuthReply
    \/ SendPort
    \/ PortReply
    \/ SendPsync
    \/ PsyncReply
    \/ RdbReply
    \/ Close
    \/ MasterCommand

OpenSpec == OpenInit /\ [][OpenNext]_vars

(***************************************************************************)
(* Properties.  cur holds every event of the current iteration and is      *)
(* emptied only when the next iteration starts; every step delivers at     *)
(* most one event.  So a predicate on the events of cur that holds in      *)
(* every reachable state holds of every event ever delivered, at the       *)
(* moment it is delivered.                                                 *)
(***************************************************************************)
IsData(e) == e.kind \in DataKinds

\* The object events of the current iteration, as indices of cur.
CurData == {i \in 1..Len(cur) : IsData(cur[i])}

\* The current iteration reads a container record.
InContainer == op.code = "object" /\ op.value_type \in ContainerTypes

RECURSIVE Flatten(_)
\* The element vectors of a sequence of batch events, end to end.
Flatten(events) ==
    IF events = <<>> THEN <<>> ELSE events[1].val \o Flatten(Tail(events))

\* ceil(n / BATCH_SIZE)
BatchesFor(n) == (n + BATCH_SIZE - 1) \div BATCH_SIZE

\* C1: when parse returns Ok, the first event delivered was BOR, the last one
\* is EOR, and each of the two was delivered exactly once.
C1_OkBracket ==
    pc = "ok" =>
        /\ hist.first = "BOR"
        /\ cur # <<>> /\ cur[Len(cur)] = EOR
        /\ hist.bor = 1
        /\ hist.eor = 1

\* parse returned Ok after it delivered object events for both keys.
C1_Witness ==
    /\ pc = "ok"
    /\ hist.keyDb["k1"] # {}
    /\ hist.keyDb["k2"] # {}

\* C2: however parse ends (Ok, a failure, an abort), an object event is never
\* delivered before BOR or after EOR: when it arrives, exactly one BOR and no
\* EOR has been delivered.
C2_DataInsideBracket ==
    \A i \in CurData : hist.first = "BOR" /\ hist.bor = 1 /\ hist.eor = 0

\* parse aborted (the `expect` of a paired arm) after it delivered a batch.
C2_Witness ==
    /\ pc = "panic"
    /\ CurData # {}

\* C3 as stated: every event between BOR and EOR is an object event; no
\* command event is delivered inside the bracket.
C3_OnlyDataInside ==
    \A i \in 1..Len(cur) : cur[i].kind \notin {"BOR", "EOR"} => IsData(cur[i])

\* C3 as amended: every event is the one opening BOR, the one closing EOR, an
\* object event, or the SELECT command event of an iteration that read a
\* SELECTDB opcode.
C3_DataOrSelectInside ==
    \A i \in 1..Len(cur) :
        \/ IsData(cur[i])
        \/ cur[i].kind = "SELECT" /\ op.code = "SELECTDB"
        \/ cur[i].kind = "BOR" /\ hist.bor = 1 /\ hist.eor = 0 /\ cur = <<BOR>>
        \/ cur[i].kind = "EOR" /\ hist.bor = 1 /\ hist.eor = 1 /\ cur = <<EOR>> /\ pc = "ok"

\* A SELECT command event was delivered inside the bracket, after object events.
C3_Witness ==
    /\ op.code = "SELECTDB"
    /\ cur # <<>> /\ cur[1].kind = "SELECT"
    /\ hist.bor = 1 /\ hist.eor = 0
    /\ hist.keyDb["k1"] # {}

\* C4: an iteration that reads a SELECTDB opcode and its db number delivers
\* exactly one event, SELECT with that db number, and is over (so the event
\* precedes every event of a later record); no other iteration delivers a SELECT.
C4_SelectPerOpcode ==
    /\ op.code = "SELECTDB" =>
          /\ cur = <<[kind |-> "SELECT", db |-> op.seldb]>>
          /\ pc = "cond"
    /\ \A i \in 1..Len(cur) : cur[i].kind = "SELECT" => op.code = "SELECTDB"

\* SELECTDB 1 was read while db 0 was current, after a record of db 0.
C4_Witness ==
    /\ op.code = "SELECTDB" /\ op.seldb = 1
    /\ cur = <<[kind |-> "SELECT", db |-> 1]>>
    /\ hist.keyDb["k1"] = {0}

\* C5 as stated: all object events delivered for a key carry the same meta.db
\* (each carries the db of the first object event of its key).
C5_SameDbPerKey ==
    \A i \in CurData : hist.keyDb[cur[i].key] = {cur[i].meta.db}

\* C5 as amended: all object events delivered for one record carry the same
\* meta.db, the db that is current while the record is read.
C5_SameDbPerRecord ==
    \A i \in CurData : cur[i].meta.db = db /\ cur[i].meta.db = cur[1].meta.db

\* Three batches of one record were delivered in db 1.
C5_Witness ==
    /\ InContainer
    /\ Len(cur) = 3
    /\ \A i \in 1..3 : IsData(cur[i]) /\ cur[i].meta.db = 1

\* C6: the batch events of a container record carry between 1 and BATCH_SIZE
\* elements, every one but the last exactly BATCH_SIZE; and a record whose
\* iterator yielded n >= 1 elements before it stopped was delivered as exactly
\* ceil(n / BATCH_SIZE) events.
C6_Batches ==
    InContainer =>
        /\ \A i \in 1..Len(cur) :
              /\ Len(cur[i].val) >= 1
              /\ Len(cur[i].val) <= BATCH_SIZE
              /\ i < Len(cur) => Len(cur[i].val) = BATCH_SIZE
        /\ (pc = "cond" /\ op.n >= 1) => Len(cur) = BatchesFor(op.n)

\* A record of exactly two full batches was read to its end.
C6_Witness ==
    /\ InContainer
    /\ pc = "cond"
    /\ op.n = 2 * BATCH_SIZE
    /\ Len(cur) = 2

\* C7: all batch events of one container record carry the key read for the
\* record and one and the same meta.
C7_SameKeyMeta ==
    InContainer =>
        \A i \in 1..Len(cur) :
            /\ cur[i].key = op.key
            /\ cur[i].meta = cur[1].meta

\* Three batches of a record with an expire and an evict prefix were delivered.
C7_Witness ==
    /\ InContainer
    /\ Len(cur) = 3
    /\ cur[3].meta.expire # None
    /\ cur[3].meta.evict # None

\* C8: the elements of a record's batch events, taken in delivery order, are
\* the record's elements 1, 2, 3, .. in input order; when the record is over
\* they are all n of them and nothing of it is pending; and an iteration
\* starts with nothing delivered and no record open.
C8_InputOrder ==
    /\ InContainer =>
          /\ Flatten(cur) = [j \in 1..Len(Flatten(cur)) |-> j]
          /\ pc = "batch" => Len(Flatten(cur)) = rec.pos /\ rec.pos + rec.left = op.n
          /\ pc = "cond" => Len(Flatten(cur)) = op.n /\ rec.left = 0 /\ ~rec.has_more
    /\ pc = "body" => cur = <<>> /\ rec = NoRec /\ op = NoOp

\* A record of two full batches and one more element was read to its end, after
\* an earlier record.
C8_Witness ==
    /\ InContainer
    /\ pc = "cond"
    /\ op.n = 2 * BATCH_SIZE + 1
    /\ Len(cur) = 3
    /\ op.key = "k2"
    /\ hist.keyDb["k1"] # {}

\* C9: an object event carries an expire only if this iteration read an
\* EXPIRETIME or EXPIRETIME_MS prefix, and an evict only if it read an IDLE or
\* FREQ prefix: nothing is left over from an earlier record.
C9_MetaPerRecord ==
    \A i \in CurData :
        /\ cur[i].meta.expire # None => op.expire # None
        /\ cur[i].meta.evict # None => op.evict # None

\* A record without prefixes was delivered, with an empty meta, in db 1 and
\* after records of both keys.
C9_Witness ==
    /\ op.code = "object"
    /\ op.expire = None /\ op.evict = None
    /\ cur # <<>> /\ IsData(cur[1])
    /\ cur[1].meta = [db |-> 1, expire |-> None, evict |-> None]
    /\ hist.keyDb["k1"] = {0} /\ hist.keyDb["k2"] = {0}

\* C10: the object events of a record carry exactly the prefixes read for it:
\* the expire (Millisecond after EXPIRETIME_MS, Second after EXPIRETIME) with
\* the value read, or none; the evict (LFU after FREQ, LRU after IDLE) with the
\* value read, or none.
C10_PrefixChain ==
    \A i \in CurData :
        /\ cur[i].meta.expire =
              IF op.expire = None THEN None
              ELSE <<IF op.expire[1] = 252 THEN "Millisecond" ELSE "Second", op.expire[2]>>
        /\ cur[i].meta.evict =
              IF op.evict = None THEN None
              ELSE <<IF op.evict[1] = 249 THEN "LFU" ELSE "LRU", op.evict[2]>>

\* EXPIRETIME, IDLE and a value type were read and the event carries both.
C10_Witness ==
    /\ op.code = "object"
    /\ op.expire # None /\ op.expire[1] = 253
    /\ op.evict # None /\ op.evict[1] = 248
    /\ cur # <<>> /\ IsData(cur[1])
    /\ cur[1].meta.expire # None /\ cur[1].meta.expire[1] = "Second"
    /\ cur[1].meta.evict # None /\ cur[1].meta.evict[1] = "LRU"

\* C11 as stated: an EXPIRETIME or EXPIRETIME_MS opcode read right after an
\* IDLE or FREQ prefix is accepted: the iteration does not abort on it.
C11_ExpireAfterEvictAccepted ==
    (/\ op.code = "object"
     /\ op.evict # None
     /\ op.expire = None
     /\ op.value_type \in {RDB_OPCODE_EXPIRETIME, RDB_OPCODE_EXPIRETIME_MS})
    => pc # "panic"

\* C12: when the loop condition finds the flag false, the next step reads
\* nothing, delivers EOR and no other event, and parse returns Ok.
C12_CleanShutdown ==
    [][(pc = "cond" /\ ~running) =>
          /\ pc' = "ok"
          /\ op' = NoOp
          /\ cur' = <<EOR>>
          /\ hist'.eor = hist.eor + 1
          /\ hist'.keyDb = hist.keyDb]_vars

\* parse returned Ok on the flag, after an object event and without an EOF
\* opcode.
C12_Witness ==
    /\ pc = "ok"
    /\ ~running
    /\ op.code = "none"
    /\ cur = <<EOR>>
    /\ hist.keyDb["k1"] # {}

\* C13 as stated: once the flag is cleared after batch k of a record, no
\* further batch of the record is delivered.
C13_NoBatchAfterClear ==
    (InContainer /\ op.cleared # None) => Len(cur) = op.cleared[1]

\* C13 as amended: the flag is not polled between the batches of a record: a
\* record whose flag was cleared between two of its batches is still delivered
\* to its last batch.
C13_FlagPolledAtLoopTop ==
    (InContainer /\ op.cleared # None) =>
        /\ ~running
        /\ pc = "batch" => rec.has_more
        /\ (pc = "cond" /\ op.n >= 1) =>
              Len(cur) = BatchesFor(op.n) /\ Len(Flatten(cur)) = op.n

\* The flag was cleared after the first of three batches and all three were
\* delivered.
C13_Witness ==
    /\ InContainer
    /\ pc = "cond"
    /\ op.cleared = <<1>>
    /\ Len(cur) = 3

\* C14 as stated: a read that fails makes parse return the failure, and
\* nothing is delivered after it: a failed read of an element ends parse in
\* Err as a failed read of an opcode or a key does, and Err is never preceded
\* by EOR.
C14_ReadFailureSurfaces ==
    /\ (op.code = "fail" \/ rec.tail = "fail") => pc = "err"
    /\ pc = "err" => hist.eor = 0

\* The arms whose iterator runs over a payload held in one RDB string.
PackedTypes ==
    {RDB_TYPE_HASH_ZIPMAP, RDB_TYPE_LIST_ZIPLIST, RDB_TYPE_SET_INTSET,
     RDB_TYPE_ZSET_ZIPLIST, RDB_TYPE_HASH_ZIPLIST, RDB_TYPE_LIST_QUICKLIST}

\* C15 as stated: a packed payload that ends before its declared entries were
\* read makes parse return a failure.
C15_TruncatedPackedFails ==
    (/\ op.code = "object"
     /\ op.value_type \in PackedTypes
     /\ rec.tail \in {"fail", "dangling"})
    => pc = "err"

\* C16: a value-type byte that is MODULE, MODULE_2, STREAM_LISTPACKS or no
\* type code at all ends parse on the spot: no event is delivered for the
\* record, no EOR, no further step, and parse has not returned Ok.
C16_UnknownTypeFatal ==
    (op.code = "object" /\ op.value_type \notin {0, 1, 2, 3, 4, 5, 9, 10, 11, 12, 13, 14}) =>
        /\ pc = "panic"
        /\ cur = <<>>
        /\ hist.eor = 0
        /\ ~ENABLED Next

\* A STREAM_LISTPACKS record was met after an object event.
C16_Witness ==
    /\ op.code = "object"
    /\ op.value_type = 15
    /\ pc = "panic"
    /\ hist.keyDb["k1"] # {}

\* C17 as stated: MODULE_AUX, MODULE, MODULE_2 and STREAM_LISTPACKS end parse
\* in a returned Err, not in a panic.
C17_UnimplementedIsErr ==
    (\/ op.code = "MODULE_AUX"
     \/ op.code = "object" /\ op.value_type \in {6, 7, 15})
    => pc = "err"

\* C18: the EOF arm consumes 8 bytes after the opcode when the version is 5 or
\* more and none otherwise, delivers EOR, returns Ok, and nothing follows.
C18_EofChecksum ==
    op.code = "EOF" =>
        /\ rdb_version >= 5 => op.extra = 8
        /\ rdb_version < 5 => op.extra = 0
        /\ pc = "ok"
        /\ cur = <<EOR>>
        /\ hist.eor = 1
        /\ ~ENABLED Next

\* EOF was read in a version 4 snapshot, after an object event.
C18_Witness ==
    /\ op.code = "EOF"
    /\ rdb_version = 4
    /\ op.extra = 0
    /\ pc = "ok"
    /\ hist.keyDb["k1"] # {}

\* The kinds of the failures response and read_bytes build for a framing
\* violation: CR not followed by LF, a bulk body not followed by CR LF.
FramingKinds == {"InvalidData", "Other"}

\* C19 as stated: a '-' frame whose line ends in CR LF makes response return
\* a failure whose message is the line, of a kind no framing violation has;
\* a '+' or ':' frame read on its own returns Bytes of the line.
C19_LineReplies ==
    /\ (/\ resp.pc \in {"ok", "err", "panic"}
        /\ resp.tag = MINUS
        /\ ~(resp.ret.type = "Err" /\ resp.ret.kind \in {"io", "InvalidData"}))
       => /\ resp.pc = "err"
          /\ resp.ret.type = "Err"
          /\ resp.ret.val = resp.line
          /\ resp.ret.kind \notin FramingKinds
    /\ (resp.pc = "ok" /\ resp.tag \in {PLUS, COLON} /\ resp.ret.type = "Bytes")
       => resp.ret.val = resp.line

\* C20: a call of read_bytes that returned Ok consumed exactly length + 2
\* bytes and returned the first length of them as Bytes when length > 0,
\* consumed exactly 2 bytes and returned Empty when length = 0, and consumed
\* nothing and returned Empty when length < 0.
C20_BulkConsumes ==
    resp.rb.ret.type # "none" =>
        /\ resp.rb.length > 0 =>
              /\ Len(resp.rb.taken) = resp.rb.length + 2
              /\ resp.rb.ret.type = "Bytes"
              /\ resp.rb.ret.val = SubSeq(resp.rb.taken, 1, resp.rb.length)
        /\ resp.rb.length = 0 =>
              /\ Len(resp.rb.taken) = 2
              /\ resp.rb.ret.type = "Empty"
        /\ resp.rb.length < 0 =>
              /\ resp.rb.taken = <<>>
              /\ resp.rb.ret.type = "Empty"

\* response returned the two bytes of a bulk frame of declared length 2, the
\* first of them a CR.
C20_Witness ==
    /\ resp.pc = "ok"
    /\ resp.rb.length = 2
    /\ resp.rb.taken = <<CR, 97, CR, LF>>
    /\ resp.ret = Bytes(<<CR, 97>>)

\* C21 as stated: an array of declared count n > 0 returns BytesVec of the
\* payloads of its leaf children in wire order; a child that is a well-formed
\* bulk string of length >= 0 does not make the array fail; an array of
\* declared count n <= 0 returns Empty having read its length line only.
C21_ArrayFlattens ==
    /\ (resp.pc = "ok" /\ resp.ret.type = "BytesVec") => resp.ret.val = resp.leaves
    /\ (resp.pc = "ok" /\ resp.tag = STAR)
       => /\ resp.ret = Empty
          /\ resp.leaves = <<>>
          /\ resp.consumed = Len(resp.line) + 3
    /\ (/\ resp.tag = DOLLAR
        /\ resp.rb.ret.type # "none"
        /\ resp.rb.length >= 0
        /\ SubSeq(resp.rb.taken, resp.rb.length + 1, resp.rb.length + 2) = <<CR, LF>>)
       => resp.pc # "err"

\* The length line of a '$' or '*' frame is not the text of a decimal integer.
MalformedLength(line) == ~Utf8Ok(line) \/ ParseIsize(line) = None

\* C22 as stated: a '$' or '*' frame whose length line is malformed ends in a
\* returned failure of a framing kind, unless the socket read itself failed.
C22_MalformedLengthIsFailure ==
    (/\ resp.pc \in {"ok", "err", "panic"}
     /\ resp.tag \in {DOLLAR, STAR}
     /\ MalformedLength(resp.line)
     /\ ~(resp.ret.type = "Err" /\ resp.ret.kind = "io"))
    => /\ resp.pc = "err"
       /\ resp.ret.kind \in FramingKinds

\* C29: read_length follows the prefix table.  With b the first byte: top
\* bits 00 give the low six bits and 1 byte consumed; 01 give low six bits
\* times 256 plus the next byte and 2 bytes consumed; 0x80 gives the next 4
\* bytes most significant first; 0x81 the next 8 bytes most significant
\* first; 11 give the low six bits; is_special holds exactly for top bits 11.
C29_PrefixTable ==
    rl.pc = "ok" =>
        LET b == rl.byte
            top == b \div 64
            low == b % 64
        IN  /\ top = 0 => rl.val = Isize(low) /\ rl.consumed = 1
            /\ top = 1 => rl.val = Isize(low * 256 + rl.buff[1]) /\ rl.consumed = 2
            /\ b = 128 => /\ Len(rl.buff) = 4
                          /\ SubSeq(rl.val, 5, 8) = rl.buff
                          /\ rl.consumed = 5
            /\ b = 129 => /\ Len(rl.buff) = 8
                          /\ rl.val = rl.buff
                          /\ rl.consumed = 9
            /\ top = 3 => rl.val = Isize(low) /\ rl.consumed = 1
            /\ rl.is_special <=> top = 3

\* read_length returned the 4-byte length 0x00000180 = 384.
C29_Witness ==
    /\ rl.pc = "ok"
    /\ rl.byte = 128
    /\ rl.buff = <<0, 0, 1, 128>>
    /\ rl.val = Isize(384)

\* C30 as stated: every length read_length returns is non-negative.
C30_LengthNonNegative == rl.pc = "ok" => ~IsNegative(rl.val)

\* The commands open sends, in order.
Handshake(password) ==
    IF password = "" THEN <<"REPLCONF", "PSYNC">> ELSE <<"AUTH", "REPLCONF", "PSYNC">>

\* The frame is an error reply, or the read of it failed.
ErrorOrReadFailure(r) == (r.tag = MINUS /\ r.form = "good") \/ r.form = "eof"

\* C23 as stated: the commands sent are a prefix of AUTH (password not
\* empty), REPLCONF, PSYNC; a command is sent only when every command before
\* it has had its reply read; and once a reply is an error reply or its read
\* fails, open has returned a failure, that reply is the last one read, no
\* command follows it and parse_rdb was not called.
C23_HandshakeOrder ==
    /\ Len(drv.sent) <= Len(Handshake(drv.password))
    /\ \A i \in 1..Len(drv.sent) : drv.sent[i].cmd = Handshake(drv.password)[i]
    /\ Len(drv.sent) <= Len(drv.replies) + 1
    /\ \A i \in 1..Len(drv.replies) :
         ErrorOrReadFailure(drv.replies[i])
         => /\ drv.pc = "err"
            /\ i = Len(drv.replies)
            /\ Len(drv.sent) <= i
            /\ drv.rdb_calls = 0

\* C24 as stated: with a password, REPLCONF is sent only when the reply read
\* to AUTH is the simple string +OK.
C24_AuthNeedsOk ==
    (drv.password # "" /\ \E i \in 1..Len(drv.sent) : drv.sent[i].cmd = "REPLCONF")
    => drv.auth_reply = <<[tag |-> PLUS, line |-> <<"OK">>, form |-> "good"]>>

\* open has reached `self.response(parse_rdb)`.
RdbPhaseEntered == drv.pc = "rdb" \/ drv.rdb_phase

\* C25 as stated: the RDB phase is entered exactly when the PSYNC reply is a
\* simple string beginning with FULLRESYNC.
C25_RdbPhaseOnSimpleString ==
    RdbPhaseEntered <=>
        /\ drv.psync_reply # <<>>
        /\ drv.psync_reply[1].tag = PLUS
        /\ drv.psync_reply[1].form = "good"
        /\ StartsWith(drv.psync_reply[1].line, "FULLRESYNC")

\* C25, amended: the RDB phase is entered exactly when response returned the
\* PSYNC reply as Bytes (a simple string, an integer or a bulk string that is
\* not empty) of UTF-8 text beginning with FULLRESYNC; a reply CONTINUE of
\* any of these kinds makes open return Ok without parse_rdb being called.
C25_RdbPhaseOnFullresync ==
    /\ RdbPhaseEntered <=>
          /\ drv.psync_reply # <<>>
          /\ Respond(drv.psync_reply[1]).type = "Bytes"
          /\ Utf8Line(Respond(drv.psync_reply[1]).val)
          /\ StartsWith(Respond(drv.psync_reply[1]).val, "FULLRESYNC")
    /\ (drv.psync_reply # <<>> /\ Respond(drv.psync_reply[1]) = Bytes(<<"CONTINUE">>))
       => /\ drv.pc = "ok"
          /\ drv.rdb_calls = 0

\* A bulk string FULLRESYNC id1 7 answered PSYNC, parse_rdb ran on the frame
\* after it, and open returned Ok.
C25_Witness ==
    /\ drv.pc = "ok"
    /\ drv.psync_reply = <<[tag |-> DOLLAR, line |-> <<"FULLRESYNC", "id1", "7">>,
                            form |-> "good"]>>
    /\ drv.rdb_phase
    /\ drv.rdb_calls = 1

\* C26 as stated: once a FULLRESYNC reply with an id and an offset was read,
\* the PSYNC of a later open carries that id and an offset other than -1.
C26_ResyncUsesCachedId ==
    (drv.pc = "psync_reply" /\ drv.full # <<>>)
    => /\ drv.sent[Len(drv.sent)].args[1] = drv.full[1].id
       /\ drv.sent[Len(drv.sent)].args[2] # "-1"

\* C27 as stated: when open has returned a failure after connect succeeded,
\* the stream has been shut down.
C27_ClosedOnFailure == (drv.pc = "err" /\ drv.connected) => drv.stream = "shutdown"

\* C28 as stated: open having got through the handshake and the snapshot,
\* every command frame the master has written was delivered to the command
\* listeners.
C28_CommandsDelivered == drv.pc = "ok" => drv.delivered = drv.inbound

\* The first bytes with top bits 10 other than 0x80 and 0x81.
MalformedPrefixes == 130..191

\* C31 as stated: on a first byte 0x82..0xBF read_length returns a failure,
\* not a length, and read_string returns a failure having read no payload.
C31_MalformedPrefixFatal ==
    /\ rl.pc = "ok" => rl.byte \notin MalformedPrefixes
    /\ (rs.pc \in {"ok", "err", "panic"} /\ rl.consumed >= 1
                                         /\ rl.byte \in MalformedPrefixes)
       => rs.pc = "err" /\ rs.buff = <<>>

\* C32: in read_string a special length whose value is 4..63 gives a failure
\* and no bytes, one byte (the prefix) having been read in all; the values
\* 0, 1 and 2 give a byte string after exactly 1, 2 and 4 payload bytes.
C32_SpecialEncodings ==
    (rs.pc \in {"ok", "err", "panic"} /\ rl.pc = "ok" /\ rl.is_special)
    => /\ IntOf(rl.val) \in 4..63
          => /\ rs.pc = "err"
             /\ rs.ret.kind = "InvalidData"
             /\ rl.consumed = 1
             /\ rs.buff = <<>>
       /\ (IntOf(rl.val) \in {0, 1, 2} /\ rs.pc = "ok")
          => /\ rs.ret.type = "Bytes"
             /\ Len(rs.buff) = IF IntOf(rl.val) = 0 THEN 1
                               ELSE IF IntOf(rl.val) = 1 THEN 2 ELSE 4
       /\ (IntOf(rl.val) \in {0, 1, 2} /\ rs.pc = "err") => rs.ret.kind = "io"

\* read_string failed on the special value 63 after the one byte 0xFF.
C32_Witness ==
    /\ rs.pc = "err"
    /\ rl.byte = 255
    /\ rl.consumed = 1
    /\ rs.ret = Failure("InvalidData", "Invalid string length")

\* C33: an entry whose encoding byte is 0xF1..0xFD decodes to the decimal
\* text of the byte minus 0xF1, one of 0..12, with no byte read after the
\* encoding byte; the text reads back as that number.
C33_SmallIntegers ==
    (zl.pc \in {"ok", "err", "panic"} /\ zl.flag \in 241..253)
    => /\ zl.pc = "ok"
       /\ zl.data = 0
       /\ zl.flag - 241 \in 0..12
       /\ Len(zl.ret) = IF zl.flag - 241 >= 10 THEN 2 ELSE 1
       /\ \A i \in 1..Len(zl.ret) : IsDigit(zl.ret[i])
       /\ DigitsValue(zl.ret) = zl.flag - 241

\* The encoding byte 0xFD gave the text 12.
C33_Witness == zl.pc = "ok" /\ zl.flag = 253 /\ zl.ret = <<49, 50>> /\ zl.data = 0

\* The encoding bytes 0xC1..0xEF that are not an integer tag.
UnlistedFlags == (193..239) \ {ZIP_INT_32BIT, ZIP_INT_64BIT}

\* C39 as stated: for an encoding byte 0xC1..0xEF that is no integer tag the
\* subtraction of 0xF1 neither aborts nor wraps.
C39_NoUnderflow ==
    (zl.pc \in {"ok", "err", "panic"} /\ zl.flag \in UnlistedFlags)
    => /\ zl.pc = "ok"
       /\ ~zl.wrapped

\* (a.ms, a.seq) is lexicographically less than (b.ms, b.seq).
LexLess(a, b) == a.ms < b.ms \/ (a.ms = b.ms /\ a.seq < b.seq)

\* The pairs are the same.
Same(a, b) == a.ms = b.ms /\ a.seq = b.seq

\* C34: every comparison made of two IDs agrees with the lexicographic
\* order of (ms, seq): < is that order, ==, !=, <=, >, >= and cmp follow from
\* it, and of a < b, a == b and a > b exactly one holds.
C34_IdOrder ==
    LET a == ids.a
        b == ids.b
    IN  /\ ids.lt # NotYet => (ids.lt = "true" <=> LexLess(a, b))
        /\ ids.eq # NotYet => (ids.eq = "true" <=> Same(a, b))
        /\ ids.ne # NotYet => (ids.ne = "true" <=> ~Same(a, b))
        /\ ids.le # NotYet => (ids.le = "true" <=> (LexLess(a, b) \/ Same(a, b)))
        /\ ids.gt # NotYet => (ids.gt = "true" <=> LexLess(b, a))
        /\ ids.ge # NotYet => (ids.ge = "true" <=> (LexLess(b, a) \/ Same(a, b)))
        /\ ids.cmp # NotYet =>
              /\ ids.cmp = "Less" <=> LexLess(a, b)
              /\ ids.cmp = "Equal" <=> Same(a, b)
              /\ ids.cmp = "Greater" <=> LexLess(b, a)
              /\ ids.partial_cmp = ids.cmp
        /\ (ids.lt # NotYet /\ ids.eq # NotYet /\ ids.gt # NotYet)
           => \/ ids.lt = "true" /\ ids.eq = "false" /\ ids.gt = "false"
              \/ ids.lt = "false" /\ ids.eq = "true" /\ ids.gt = "false"
              \/ ids.lt = "false" /\ ids.eq = "false" /\ ids.gt = "true"

\* 1-0 against 0-2: ms decides against seq, and every comparison was made.
C34_Witness ==
    /\ ids.a = [ms |-> 1, seq |-> 0]
    /\ ids.b = [ms |-> 0, seq |-> 2]
    /\ ids.lt = "false" /\ ids.gt = "true" /\ ids.eq = "false" /\ ids.ne = "true"
    /\ ids.le = "false" /\ ids.ge = "true" /\ ids.cmp = "Greater"

\* C35: every object event carries as meta.db the db of the last SELECT event
\* delivered before it (the most recent SELECTDB read), 0 when there was none;
\* the current db is that db in every state, so no arm but SELECTDB changes
\* it; and an iteration that read AUX or RESIZEDB delivered no event.
C35_DbOfLastSelect ==
    /\ \A i \in CurData : cur[i].meta.db = hist.selected
    /\ db = hist.selected
    /\ op.code \in {"AUX", "RESIZEDB"} => cur = <<>> /\ meta.db = hist.selected

\* An object of db 1 was delivered after SELECTDB 1, a record of another key
\* having been delivered in db 0 before.
C35_Witness ==
    /\ op.code = "object" /\ op.key = "k2"
    /\ cur # <<>> /\ IsData(cur[1]) /\ cur[1].meta.db = 1
    /\ hist.selected = 1
    /\ hist.keyDb["k1"] = {0}

\* C36: a container record whose iterator is used up without yielding an
\* element (a declared count of 0, a packed payload without entries) delivers
\* no event, its key included, and the decoder is back at the top of the
\* loop, to read the next opcode.
C36_EmptyContainerSilent ==
    (/\ op.code = "object"
     /\ op.value_type \in ContainerTypes
     /\ op.n = 0
     /\ rec.tail = "end")
    => /\ pc = "cond"
       /\ cur = <<>>
       /\ ~rec.has_more
       /\ ENABLED LoopCond

\* An empty HASH of key k2 was read after a record of key k1 was delivered:
\* no event of k2 was.
C36_Witness ==
    /\ op.code = "object" /\ op.value_type = RDB_TYPE_HASH /\ op.key = "k2"
    /\ op.n = 0 /\ rec.tail = "end"
    /\ pc = "cond" /\ cur = <<>>
    /\ hist.keyDb["k1"] # {} /\ hist.keyDb["k2"] = {}

\* C37: when the first byte response reads is none of + - : $ *, the call
\* has consumed that one byte and returns Ok(Empty), not a failure; and a call
\* reads one top-level frame at most: the tag of a top-level frame is read
\* only as the first byte of the call, and nothing is read after the return.
C37_UnknownTagIsEmpty ==
    /\ (/\ resp.pc \notin {"idle", "tag"}
        /\ resp.consumed = 1
        /\ resp.tag \notin {PLUS, MINUS, COLON, DOLLAR, STAR})
       => /\ resp.pc = "ok"
          /\ resp.ret = Empty
          /\ resp.stack = <<>>
    /\ (resp.pc = "tag" /\ resp.stack = <<>>) => resp.consumed = 0
    /\ resp.pc \in {"ok", "err", "panic"} => ~ENABLED RespNext

\* The byte 'a' was read as the tag of the top-level frame.
C37_Witness ==
    /\ resp.pc = "ok"
    /\ resp.tag = 97
    /\ resp.consumed = 1
    /\ resp.ret = Empty
    /\ resp.leaves = <<>>

\* C38 as stated: once a simple string that begins with neither FULLRESYNC
\* nor CONTINUE has answered PSYNC, open has returned Ok and the RDB phase was
\* not entered; and open has returned a failure after a well-formed reply to
\* PSYNC only if response gave it as Empty or BytesVec, or it is an error
\* reply.
C38_OtherReplyIsSuccess ==
    /\ (/\ drv.psync_reply # <<>>
        /\ drv.psync_reply[1].tag = PLUS
        /\ drv.psync_reply[1].form = "good"
        /\ ~StartsWith(drv.psync_reply[1].line, "FULLRESYNC")
        /\ ~StartsWith(drv.psync_reply[1].line, "CONTINUE"))
       => /\ drv.pc = "ok"
          /\ ~RdbPhaseEntered
    /\ (/\ drv.pc = "err"
        /\ drv.psync_reply # <<>>
        /\ drv.psync_reply[1].form = "good")
       => \/ Respond(drv.psync_reply[1]).type \in {"Empty", "BytesVec"}
          \/ drv.psync_reply[1].tag = MINUS

====
